---------------------------- MODULE Spec2Model ----------------------------
(***************************************************************************)
(* Model of the reconciliation engine of RadarTimelineData                 *)
(* (radar_timeline_data/utils/treatments.py, utils.py, transplants.py).    *)
(*                                                                         *)
(* A table (polars DataFrame) is a sequence of rows, a row is a record of  *)
(* its columns.  Dates are day numbers, ids and codes are naturals.  A     *)
(* polars null is NULL in a numeric column and NULL_STR in a string        *)
(* column.  Comparisons follow polars: a comparison with a null operand is *)
(* null, & and | are Kleene's, filter and when keep only true.             *)
(* Sorting follows the documented contract of DataFrame.sort / Expr.sort:  *)
(* nulls are placed first unless nulls_last is set, whatever the           *)
(* direction; rows with equal keys keep their relative order.  group_by    *)
(* keeps the row order inside a group and returns the groups in any order. *)
(***************************************************************************)
EXTENDS Integers, Sequences, FiniteSets, TLC

VARIABLES
    pc,                 \* position in the run being modelled
    df,                 \* argument table of the function under study
    day_override,       \* day threshold handed to the grouping
    grouped,            \* output of group_similar_or_overlapping_range
    reduced_source,     \* output of group_and_reduce_ukrdc_or_rr_dataframe
    df_collection,      \* the run's source tables "radar", "ukrdc", "rr"
    combined_dataframe, \* the merged, grouped table of the run
    reduced_dataframe,  \* the canonical table: one row per cluster
    full_dataframe,     \* split_combined_dataframe: the prior full table
    existing_rows,      \* split_combined_dataframe: the update table
    new_rows,           \* split_combined_dataframe: the new table
    commit,             \* the commit flag of the run
    inserted            \* the rows handed to df_batch_insert_to_sql so far

vars == <<pc, df, day_override, grouped, reduced_source, df_collection,
          combined_dataframe, reduced_dataframe, full_dataframe, existing_rows,
          new_rows, commit, inserted>>

----------------------------------------------------------------------------
(* Nulls and three-valued logic                                            *)

NULL == -1
NULL_STR == "null"

KTRUE == "true"
KFALSE == "false"
KNULL == "unknown"

KAnd(a, b) ==
    IF a = KFALSE \/ b = KFALSE THEN KFALSE
    ELSE IF a = KNULL \/ b = KNULL THEN KNULL
    ELSE KTRUE

KOr(a, b) ==
    IF a = KTRUE \/ b = KTRUE THEN KTRUE
    ELSE IF a = KNULL \/ b = KNULL THEN KNULL
    ELSE KFALSE

KLe(a, b) == IF a = NULL \/ b = NULL THEN KNULL ELSE IF a <= b THEN KTRUE ELSE KFALSE
KGe(a, b) == KLe(b, a)

Abs(n) == IF n < 0 THEN -n ELSE n

\* Mutant of KWithin: the threshold is taken one day too wide.
KWithin_one_day_wide(a, b, days) ==
    IF a = NULL \/ b = NULL THEN KNULL
    ELSE IF Abs(a - b) <= days + 1 THEN KTRUE ELSE KFALSE

\* Mutant of KWithin: the comparison is turned round.
KWithin_at_least(a, b, days) ==
    IF a = NULL \/ b = NULL THEN KNULL
    ELSE IF Abs(a - b) >= days THEN KTRUE ELSE KFALSE

\* Mutant of KWithin: a distance of exactly the threshold is not within it.
KWithin_exclusive(a, b, days) ==
    IF a = NULL \/ b = NULL THEN KNULL
    ELSE IF Abs(a - b) < days THEN KTRUE ELSE KFALSE

\* abs(a - b) <= pl.duration(days=days)
KWithin(a, b, days) ==
    IF a = NULL \/ b = NULL THEN KNULL
    ELSE IF Abs(a - b) <= days THEN KTRUE ELSE KFALSE

\* pl.col(col) != pl.col(col_old); nl is the null of the column's type
KNe(a, b, nl) == IF a = nl \/ b = nl THEN KNULL ELSE IF a # b THEN KTRUE ELSE KFALSE

----------------------------------------------------------------------------
(* Tables                                                                  *)

Col(t, c) == [i \in 1..Len(t) |-> t[i][c]]

WithCol(r, c, v) == [f \in DOMAIN r \cup {c} |-> IF f = c THEN v ELSE r[f]]

WithColumn(t, c, vals) == [i \in 1..Len(t) |-> WithCol(t[i], c, vals[i])]

DropCols(t, cs) == [i \in 1..Len(t) |-> [f \in DOMAIN t[i] \ cs |-> t[i][f]]]

RowSet(t) == {t[i] : i \in 1..Len(t)}

\* the null of a column: a null string for source_type, a null number otherwise
NullOf(c) == IF c = "source_type" THEN NULL_STR ELSE NULL

\* the columns of the rows of a table
Columns(t) == UNION {DOMAIN t[i] : i \in 1..Len(t)}

\* the orders the rows of a table of n rows can be given in
Orders(n) == {p \in [1..n -> 1..n] : \A i, j \in 1..n : p[i] = p[j] => i = j}

Reordered(t, p) == [i \in 1..Len(t) |-> t[p[i]]]

\* group_by(...).agg(...) without maintain_order: the rows of the result, one
\* for each group, come in any order
Orderings(t) == {Reordered(t, p) : p \in Orders(Len(t))}

RECURSIVE LexLt(_, _)
LexLt(a, b) ==
    IF a = <<>> THEN FALSE
    ELSE IF Head(a) < Head(b) THEN TRUE
    ELSE IF Head(a) > Head(b) THEN FALSE
    ELSE LexLt(Tail(a), Tail(b))

\* One column's contribution to a sort key: where the null goes, then the value.
ColKey(v, desc, nulls_last) ==
    IF v = NULL THEN << IF nulls_last THEN 1 ELSE 0, 0 >>
    ELSE << IF nulls_last THEN 0 ELSE 1, IF desc THEN -v ELSE v >>

RECURSIVE RowKey(_, _, _, _)
RowKey(r, by, descending, nulls_last) ==
    IF by = <<>> THEN <<>>
    ELSE ColKey(r[Head(by)], Head(descending), nulls_last)
         \o RowKey(r, Tail(by), Tail(descending), nulls_last)

Front(s) == SubSeq(s, 1, Len(s) - 1)

\* DataFrame.sort(by, descending=..., nulls_last=...)
sort(t, by, descending, nulls_last) ==
    LET key(r) == RowKey(r, by, descending, nulls_last)
        RECURSIVE Ins(_, _)
        Ins(r, s) ==
            IF s = <<>> THEN <<r>>
            ELSE IF LexLt(key(r), key(Head(s))) THEN <<r>> \o s
            ELSE <<Head(s)>> \o Ins(r, Tail(s))
        RECURSIVE Srt(_)
        Srt(s) == IF s = <<>> THEN <<>> ELSE Ins(s[Len(s)], Srt(Front(s)))
    IN  Srt(t)

AllOf(n, b) == [k \in 1..n |-> b]

WindowKey(r, window) == [k \in 1..Len(window) |-> r[window[k]]]

\* positions of the rows of t that share r's window, ascending
RECURSIVE Positions(_, _, _, _)
Positions(t, window, key, i) ==
    IF i > Len(t) THEN <<>>
    ELSE (IF WindowKey(t[i], window) = key THEN <<i>> ELSE <<>>)
         \o Positions(t, window, key, i + 1)

IndexOf(s, v) == CHOOSE p \in 1..Len(s) : s[p] = v

\* Expr.shift(): every value moves one row down, the first becomes null
Shift(vals) == IF vals = <<>> THEN <<>> ELSE <<NULL>> \o Front(vals)

\* Expr.shift(-1): every value moves one row up, the last becomes null
ShiftBack(vals) == IF vals = <<>> THEN <<>> ELSE Tail(vals) \o <<NULL>>

\* Expr.forward_fill(): a null takes the last non-null value before it
RECURSIVE ForwardFill(_)
ForwardFill(vals) ==
    IF Len(vals) <= 1 THEN vals
    ELSE LET f == ForwardFill(Front(vals))
             v == vals[Len(vals)]
         IN  f \o << IF v = NULL THEN f[Len(f)] ELSE v >>

\* Expr.cum_sum()
RECURSIVE CumSum(_)
CumSum(vals) ==
    IF Len(vals) <= 1 THEN vals
    ELSE LET c == CumSum(Front(vals))
         IN  c \o << c[Len(c)] + vals[Len(vals)] >>

\* Mutant of RleId: the values are returned as they are, not numbered from 0.
RleId_not_compacted(vals) == vals

\* Expr.rle_id(): the number of the run of equal values a row lies in, from 0
RECURSIVE RleId(_)
RleId(vals) ==
    IF vals = <<>> THEN <<>>
    ELSE IF Len(vals) = 1 THEN <<0>>
    ELSE LET ids == RleId(Front(vals))
             n == Len(vals)
         IN  ids \o << IF vals[n] = vals[n - 1] THEN ids[n - 1] ELSE ids[n - 1] + 1 >>

\* the column expressions the program evaluates over a window
Expr(op, vals) ==
    CASE op = "shift" -> Shift(vals)
      [] op = "shift.forward_fill" -> ForwardFill(Shift(vals))
      [] op = "shift(-1)" -> ShiftBack(vals)
      [] op = "cum_sum.rle_id" -> RleId(CumSum(vals))

\* pl.col(c).<op>.over(window): the expression is evaluated on the rows of
\* each window, in table order, and gives one value per row
Over(t, window, c, op) ==
    [i \in 1..Len(t) |->
        LET idx == Positions(t, window, WindowKey(t[i], window), 1)
            sub == [p \in 1..Len(idx) |-> t[idx[p]][c]]
        IN  Expr(op, sub)[IndexOf(idx, i)]]

----------------------------------------------------------------------------
(* Interval closeness and episode grouping                                 *)

DefaultDayOverride == 5

\* Mutant of overlapping_dates_bool_mask: a null prev_to_date counts as an
\* unbounded end in the two "falls within" tests.
overlapping_dates_bool_mask_open_end(r, days) ==
    LET below(v) == IF v = NULL THEN KNULL
                    ELSE IF r.prev_to_date = NULL THEN KTRUE
                    ELSE KLe(v, r.prev_to_date)
        overlap1 == KAnd(below(r.from_date), KGe(r.from_date, r.prev_from_date))
        overlap2 == KAnd(below(r.to_date), KGe(r.to_date, r.prev_from_date))
        date_diff1 == KWithin(r.to_date, r.prev_from_date, days)
        date_diff2 == KWithin(r.from_date, r.prev_to_date, days)
        date_diff3 == KWithin(r.from_date, r.prev_from_date, days)
        date_diff4 == KWithin(r.to_date, r.prev_to_date, days)
    IN  KOr(KOr(KOr(KOr(KOr(overlap1, overlap2), date_diff1), date_diff2), date_diff3), date_diff4)

\* overlapping_dates_bool_mask(days), evaluated on one row
overlapping_dates_bool_mask(r, days) ==
    LET overlap1 == KAnd(KLe(r.from_date, r.prev_to_date), KGe(r.from_date, r.prev_from_date))
        overlap2 == KAnd(KLe(r.to_date, r.prev_to_date), KGe(r.to_date, r.prev_from_date))
        date_diff1 == KWithin(r.to_date, r.prev_from_date, days)
        date_diff2 == KWithin(r.from_date, r.prev_to_date, days)
        date_diff3 == KWithin(r.from_date, r.prev_from_date, days)
        date_diff4 == KWithin(r.to_date, r.prev_to_date, days)
    IN  KOr(KOr(KOr(KOr(KOr(overlap1, overlap2), date_diff1), date_diff2), date_diff3), date_diff4)

\* Mutant of canonical_sort: the rows are sorted by the window keys only and
\* keep their input order inside a window.
canonical_sort_by_window(t, window) ==
    sort(t, window, AllOf(Len(window), FALSE), FALSE)

\* df.sort(window + ["from_date", "to_date"], descending=descending) with
\* descending = [False] * len(window) + [False, True]
canonical_sort(t, window) ==
    sort(t, window \o <<"from_date", "to_date">>,
         [k \in 1..Len(window) + 2 |-> k = Len(window) + 2], FALSE)

\* pl.col("from_date").shift().over(window).alias("prev_from_date")
with_prev_from_date(t, window) ==
    WithColumn(t, "prev_from_date", Over(t, window, "from_date", "shift"))

\* df.sort(window + ["to_date"], nulls_last=True)
to_date_sort(t, window) ==
    sort(t, window \o <<"to_date">>, AllOf(Len(window) + 1, FALSE), TRUE)

\* pl.col("to_date").shift().forward_fill().over(window).alias("prev_to_date")
with_prev_to_date(t, window) ==
    WithColumn(t, "prev_to_date", Over(t, window, "to_date", "shift.forward_fill"))

\* a null prev_to_date takes next_to_date, the to_date of the row after it in
\* the window
with_next_to_date(t, window) ==
    [i \in 1..Len(t) |->
        [t[i] EXCEPT !.prev_to_date =
            IF @ = NULL THEN Over(t, window, "to_date", "shift(-1)")[i] ELSE @]]

\* The table of group_similar_or_overlapping_range just before the mask is
\* applied: canonical order, with the reference columns prev_from_date and
\* prev_to_date.
ReferenceTable(t, window) ==
    canonical_sort(
        with_next_to_date(
            with_prev_to_date(
                to_date_sort(with_prev_from_date(canonical_sort(t, window), window),
                             window),
                window),
            window),
        window)

\* pl.when(mask).then(0).otherwise(1).alias("group_id")
with_group_flag(t, days) ==
    WithColumn(t, "group_id",
        [i \in 1..Len(t) |->
            IF overlapping_dates_bool_mask(t[i], days) = KTRUE THEN 0 ELSE 1])

\* pl.col("group_id").cum_sum().rle_id().over(window).alias("group_id")
with_group_id(t, window) ==
    WithColumn(t, "group_id", Over(t, window, "group_id", "cum_sum.rle_id"))

group_similar_or_overlapping_range(t, window, days) ==
    DropCols(with_group_id(with_group_flag(ReferenceTable(t, window), days), window),
             {"prev_to_date", "prev_from_date"})

----------------------------------------------------------------------------
(* Reduction of one source (UKRDC or RR)                                   *)

Max(a, b) == IF a >= b THEN a ELSE b

\* pl.max_horizontal([a, b]): the greatest non-null value, null if both are null
max_horizontal(a, b) ==
    IF a = NULL THEN b ELSE IF b = NULL THEN a ELSE Max(a, b)

\* v put into the sorted values s, after the values that do not sort later
insert_value(s, v, desc, nulls_last) ==
    SelectSeq(s, LAMBDA x : ~LexLt(ColKey(v, desc, nulls_last), ColKey(x, desc, nulls_last)))
    \o <<v>>
    \o SelectSeq(s, LAMBDA x : LexLt(ColKey(v, desc, nulls_last), ColKey(x, desc, nulls_last)))

\* Expr.sort(descending=..., nulls_last=...) on the values of one column
RECURSIVE sort_values(_, _, _)
sort_values(vals, desc, nulls_last) ==
    IF vals = <<>> THEN <<>>
    ELSE insert_value(sort_values(Front(vals), desc, nulls_last), vals[Len(vals)],
                      desc, nulls_last)

\* Expr.first(): null on an empty column
First(vals) == IF vals = <<>> THEN NULL ELSE vals[1]

\* Expr.min(): the least non-null value, null if there is none
Min(vals) ==
    LET S == {vals[p] : p \in 1..Len(vals)} \ {NULL}
    IN  IF S = {} THEN NULL ELSE CHOOSE m \in S : \A x \in S : m <= x

max_with_nulls(vals) == First(sort_values(vals, TRUE, FALSE))

\* Mutant of group_by: the groups are keyed by the last key (group_id) alone.
RECURSIVE group_by_last_key(_, _)
group_by_last_key(t, keys) ==
    IF t = <<>> THEN <<>>
    ELSE LET k == t[1][keys[Len(keys)]]
             same(r) == r[keys[Len(keys)]] = k
             other(r) == r[keys[Len(keys)]] # k
         IN  <<SelectSeq(t, same)>> \o group_by_last_key(SelectSeq(t, other), keys)

\* Mutant of group_by: a group is a run of adjacent rows with equal keys.
RECURSIVE group_by_adjacent(_, _)
group_by_adjacent(t, keys) ==
    IF t = <<>> THEN <<>>
    ELSE LET rest == group_by_adjacent(Tail(t), keys)
         IN  IF rest # <<>> /\ WindowKey(rest[1][1], keys) = WindowKey(t[1], keys)
             THEN <<(<<t[1]>> \o rest[1])>> \o Tail(rest)
             ELSE <<(<<t[1]>>)>> \o rest

\* DataFrame.group_by(keys): the groups, each with its rows in table order.
\* The groups are listed by first appearance; the order polars returns them
\* in is not fixed, and every step that keeps the result of a reduction
\* takes one of its Orderings.
RECURSIVE group_by(_, _)
group_by(t, keys) ==
    IF t = <<>> THEN <<>>
    ELSE LET k == WindowKey(t[1], keys)
             same(r) == WindowKey(r, keys) = k
             other(r) == WindowKey(r, keys) # k
         IN  <<SelectSeq(t, same)>> \o group_by(SelectSeq(t, other), keys)

\* pl.max_horizontal(["created_date", "modified_date"]).alias(name)
with_recent_date(t, name) ==
    WithColumn(t, name,
        [i \in 1..Len(t) |-> max_horizontal(t[i].created_date, t[i].modified_date)])

\* agg: the earliest from_date, max_with_nulls of to_date, the first value of
\* every other column
agg_source_groups(groups) ==
    [n \in 1..Len(groups) |->
        [groups[n][1] EXCEPT
            !.from_date = Min(Col(groups[n], "from_date")),
            !.to_date = max_with_nulls(Col(groups[n], "to_date"))]]

group_and_reduce_ukrdc_or_rr_dataframe(t) ==
    agg_source_groups(
        group_by(
            sort(with_recent_date(
                     group_similar_or_overlapping_range(t, <<"patient_id", "modality">>,
                                                        DefaultDayOverride),
                     "most_recent_date"),
                 <<"most_recent_date">>, <<TRUE>>, FALSE),
            <<"patient_id", "modality", "group_id">>))

----------------------------------------------------------------------------
(* Merge of the sources and cross-source reduction                         *)

\* source_type.replace(old=labels, new=["0".."4"], default=None).cast(Int32)
Priority(label) ==
    CASE label = "NHSBT LIST" -> 0
      [] label = "BATCH" -> 1
      [] label = "UKRDC" -> 2
      [] label = "RADAR" -> 3
      [] label = "RR" -> 4
      [] OTHER -> NULL

\* source_type.cast(String).replace(old=["0".."4"], new=labels, default=None)
SourceLabel(n) ==
    CASE n = 0 -> "NHSBT LIST"
      [] n = 1 -> "BATCH"
      [] n = 2 -> "UKRDC"
      [] n = 3 -> "RADAR"
      [] n = 4 -> "RR"
      [] OTHER -> NULL_STR

\* pl.concat(frames, how="diagonal_relaxed") on the rows t of the frames, in
\* the order of the frames: the result has the columns of all the frames, and
\* a row has a null in every column its own frame lacks
Diagonal(t, columns) ==
    [i \in 1..Len(t) |->
        [c \in columns |-> IF c \in DOMAIN t[i] THEN t[i][c] ELSE NullOf(c)]]

\* the columns of the reduced ukrdc and rr frames that the radar frame lacks;
\* the reduced frames have them also when they have no rows
ReducedColumns == {"group_id", "most_recent_date"}

PrioritySort(t) ==
    sort(t, <<"patient_id", "source_type", "recent_date", "from_date">>,
         AllOf(4, TRUE), FALSE)

\* source_type replaced by its priority number
with_priority(t) == [i \in 1..Len(t) |-> [t[i] EXCEPT !.source_type = Priority(@)]]

\* combine_treatment_dataframes on frames whose columns, those of the frames
\* without rows included, are the given ones
combine_frames(c, columns) ==
    group_similar_or_overlapping_range(
        PrioritySort(
            with_priority(
                with_recent_date(
                    sort(Diagonal(c.radar \o c.ukrdc \o c.rr, columns),
                         <<"patient_id", "modality", "from_date">>, AllOf(3, FALSE), FALSE),
                    "recent_date"))),
        <<"patient_id", "modality">>, 5)

\* combine_treatment_dataframes on frames that have the columns of their rows
combine_treatment_dataframes(c) == combine_frames(c, Columns(c.radar \o c.ukrdc \o c.rr))

SelectedColumns ==
    <<"patient_id", "id", "from_date", "to_date", "modality", "source_group_id",
      "source_type", "created_date", "modified_date">>

Select(r, cols) == [c \in {cols[k] : k \in 1..Len(cols)} |-> r[c]]

NotNull(v) == v # NULL

NotNullId(r) == r.id # NULL

\* agg: the first non-null id and the first value of every other column;
\* then source_type back to its label and the selected columns
agg_combined_groups(groups) ==
    [n \in 1..Len(groups) |->
        Select([groups[n][1] EXCEPT
                    !.id = First(SelectSeq(Col(groups[n], "id"), NotNull)),
                    !.source_type = SourceLabel(@)],
               SelectedColumns)]

\* agg with the id taken from the first row like every other column
agg_combined_groups_first_id(groups) ==
    [n \in 1..Len(groups) |->
        Select([groups[n][1] EXCEPT !.source_type = SourceLabel(@)], SelectedColumns)]

\* agg with the earliest from_date and the latest concrete to_date of the group
agg_combined_groups_min_max(groups) ==
    [n \in 1..Len(groups) |->
        Select([groups[n][1] EXCEPT
                    !.id = First(SelectSeq(Col(groups[n], "id"), NotNull)),
                    !.from_date = Min(Col(groups[n], "from_date")),
                    !.to_date = First(sort_values(SelectSeq(Col(groups[n], "to_date"), NotNull),
                                                  TRUE, FALSE)),
                    !.source_type = SourceLabel(@)],
               SelectedColumns)]

\* Mutant of group_and_reduce_combined_treatment_dataframe: the id is taken
\* from the first row like every other column.
group_and_reduce_combined_treatment_dataframe_first_id(t) ==
    agg_combined_groups_first_id(
        group_by(PrioritySort(t), <<"patient_id", "modality", "group_id">>))

\* Mutant of group_and_reduce_combined_treatment_dataframe: the dates are
\* the earliest from_date and the latest concrete to_date of the group.
group_and_reduce_combined_treatment_dataframe_min_max(t) ==
    agg_combined_groups_min_max(
        group_by(PrioritySort(t), <<"patient_id", "modality", "group_id">>))

group_and_reduce_combined_treatment_dataframe(t) ==
    agg_combined_groups(group_by(PrioritySort(t), <<"patient_id", "modality", "group_id">>))

----------------------------------------------------------------------------
(* Split into new rows and update rows                                     *)

\* the row of nulls a left join supplies when the right table has no match
NullRow(cols) == [c \in {cols[k] : k \in 1..Len(cols)} |-> NullOf(c)]

\* the right rows joined to one left row: those of the same id, or a row of
\* nulls when there is none
joined_rows(r, hits) ==
    IF hits = <<>> THEN <<[new |-> r, old |-> NullRow(SelectedColumns)]>>
    ELSE [k \in 1..Len(hits) |-> [new |-> r, old |-> hits[k]]]

\* left.join(right, on="id", how="left", suffix="_old")
RECURSIVE join_left(_, _)
join_left(left, right) ==
    IF left = <<>> THEN <<>>
    ELSE joined_rows(left[1], SelectSeq(right, LAMBDA o : o.id = left[1].id))
         \o join_left(Tail(left), right)

ComparedColumns == SelectSeq(SelectedColumns, LAMBDA c : c # "id")

\* mask(cols): reduce(or_, [pl.col(col) != pl.col(col + "_old") for col in cols])
RECURSIVE mask(_, _)
mask(j, cols) ==
    IF Len(cols) = 1
    THEN KNe(j.new[cols[1]], j.old[cols[1]], NullOf(cols[1]))
    ELSE KOr(mask(j, Front(cols)),
             KNe(j.new[cols[Len(cols)]], j.old[cols[Len(cols)]], NullOf(cols[Len(cols)])))

\* full_dataframe.select(reduced_dataframe.columns), source_type as a label
prior_records(full) ==
    [i \in 1..Len(full) |->
        [Select(full[i], SelectedColumns) EXCEPT !.source_type = SourceLabel(@)]]

\* Mutant of restore_created_date: the merged created_date is kept.
restore_created_date_skipped(kept) == [i \in 1..Len(kept) |-> kept[i].new]

\* created_date_old takes the place of created_date
restore_created_date(kept) ==
    [i \in 1..Len(kept) |-> [kept[i].new EXCEPT !.created_date = kept[i].old.created_date]]

split_existing_rows(full, reduced) ==
    restore_created_date(
        SelectSeq(join_left(SelectSeq(reduced, NotNullId), prior_records(full)),
                  LAMBDA j : mask(j, ComparedColumns) = KTRUE))

\* Mutant of split_new_rows: the null-id filter is left out.
split_new_rows_unfiltered(full, reduced) == reduced

split_new_rows(full, reduced) == SelectSeq(reduced, LAMBDA r : r.id = NULL)

----------------------------------------------------------------------------
(* Transplants: grouping, merge and reduction in transplant_run            *)

TransplantDays == 5

\* Mutant of with_transplant_flag: a date exactly 5 days after the one before
\* it is not close to it.
with_transplant_flag_exclusive(t) ==
    WithColumn(t, "group_id",
        [i \in 1..Len(t) |->
            IF KWithin(t[i].date, Over(t, <<"patient_id">>, "date", "shift")[i],
                       TransplantDays - 1) = KTRUE
            THEN 0 ELSE 1])

\* mask = abs(date - date_shifted) <= 5 days; when(mask).then(0).otherwise(1)
with_transplant_flag(t) ==
    WithColumn(t, "group_id",
        [i \in 1..Len(t) |->
            IF KWithin(t[i].date, Over(t, <<"patient_id">>, "date", "shift")[i],
                       TransplantDays) = KTRUE
            THEN 0 ELSE 1])

\* sort by patient and date, compare each date with the one before it for
\* the same patient, and number the runs of close dates per patient
group_transplants(t) ==
    with_group_id(
        with_transplant_flag(sort(t, <<"patient_id", "date">>, AllOf(2, FALSE), FALSE)),
        <<"patient_id">>)

\* agg: every column from the first row of the group; a null id
agg_rr_transplants(groups) ==
    [n \in 1..Len(groups) |-> WithCol(groups[n][1], "id", NULL)]

group_and_reduce_transplant_rr(rr) ==
    DropCols(agg_rr_transplants(group_by(group_transplants(rr), <<"patient_id", "group_id">>)),
             {"group_id"})

TransplantColumns ==
    {"id", "patient_id", "modality", "date", "date_of_failure", "source_group_id",
     "source_type"}

\* pl.concat([radar, rr], how="diagonal_relaxed")
DiagonalTransplants(t) ==
    [i \in 1..Len(t) |->
        [c \in TransplantColumns |-> IF c \in DOMAIN t[i] THEN t[i][c] ELSE NullOf(c)]]

\* the merged transplants, grouped, with source priorities, in priority order
merge_transplants(c) ==
    sort(with_priority(
             group_transplants(DiagonalTransplants(c.radar) \o DiagonalTransplants(c.rr))),
         <<"patient_id", "group_id", "source_type">>, AllOf(3, TRUE), FALSE)

\* agg: the first non-null id, every other column from the first row
agg_transplants(groups) ==
    [n \in 1..Len(groups) |->
        [groups[n][1] EXCEPT
            !.id = First(SelectSeq(Col(groups[n], "id"), NotNull)),
            !.source_type = SourceLabel(@)]]

reduce_transplants(t) ==
    DropCols(agg_transplants(group_by(t, <<"patient_id", "group_id">>)), {"group_id"})

----------------------------------------------------------------------------
(* Inputs                                                                  *)

MaxRows == 3
MaxPatient == 2

\* day numbers with gaps of 3 (inside the default threshold) and 6 (outside)
Dates == {0, 3, 9, 12, 18, 21}
Patients == 1..MaxPatient

Tables(rows, n) == UNION {[1..k -> rows] : k \in 0..n}

Idle == <<>>
NoTables == [radar |-> <<>>, ukrdc |-> <<>>, rr |-> <<>>]

----------------------------------------------------------------------------
(* Specification of the grouping step on its own                           *)

\* an episode ends on or after the day it starts, or is open-ended
Spans == {s \in Dates \X (Dates \cup {NULL}) : s[2] = NULL \/ s[2] >= s[1]}

GroupRows ==
    {[patient_id |-> p, modality |-> 1, from_date |-> s[1], to_date |-> s[2]] :
        p \in Patients, s \in Spans}

TreatmentWindow == <<"patient_id", "modality">>

GroupInit ==
    /\ pc = "group"
    /\ df \in Tables(GroupRows, MaxRows)
    /\ day_override = DefaultDayOverride
    /\ grouped = Idle
    /\ reduced_source = Idle
    /\ df_collection = NoTables
    /\ combined_dataframe = Idle
    /\ reduced_dataframe = Idle
    /\ full_dataframe = Idle
    /\ existing_rows = Idle
    /\ new_rows = Idle
    /\ commit = FALSE
    /\ inserted = Idle

Group ==
    /\ pc = "group"
    /\ grouped' = group_similar_or_overlapping_range(df, TreatmentWindow, day_override)
    /\ pc' = "grouped"
    /\ UNCHANGED <<df, day_override, reduced_source, df_collection, combined_dataframe,
                   reduced_dataframe, full_dataframe, existing_rows, new_rows,
                   commit, inserted>>

GroupNext == Group

SpecGroup == GroupInit /\ [][GroupNext]_vars

----------------------------------------------------------------------------
(* Properties of the grouping step *)

\* row i of the grouped table has an immediate predecessor in its window
HasPredecessor(t, i) ==
    i > 1 /\ WindowKey(t[i - 1], TreatmentWindow) = WindowKey(t[i], TreatmentWindow)

\* every row of i's window other than i itself is open-ended
OthersOpenEnded(t, i) ==
    \A j \in 1..Len(t) :
        (j # i /\ WindowKey(t[j], TreatmentWindow) = WindowKey(t[i], TreatmentWindow))
            => t[j].to_date = NULL

\* C3 (as claimed): a row whose from_date or to_date lies within the range
\* of its immediate predecessor in canonical order, the predecessor having a
\* concrete to_date, gets the predecessor's group_id whatever else is in the
\* window.
C3_WithinPredecessorSameGroup ==
    pc = "grouped" =>
        \A i \in 1..Len(grouped) :
            LET r == grouped[i]
                p == grouped[i - 1]
            IN  (/\ HasPredecessor(grouped, i)
                 /\ p.to_date # NULL
                 /\ \/ (p.from_date <= r.from_date /\ r.from_date <= p.to_date)
                    \/ (r.to_date # NULL /\ p.from_date <= r.to_date
                            /\ r.to_date <= p.to_date))
                => r.group_id = p.group_id

\* C6 (as claimed): a row whose immediate predecessor is open-ended is always
\* placed in the predecessor's group, however many days later it starts.
C6_OpenEndedPredecessorUnbounded ==
    pc = "grouped" =>
        \A i \in 1..Len(grouped) :
            (HasPredecessor(grouped, i) /\ grouped[i - 1].to_date = NULL)
                => grouped[i].group_id = grouped[i - 1].group_id

\* C6 (amended): a null end is not an unbounded one.  When every other row of
\* the window is open-ended, so that no concrete to_date can serve as the
\* reference end, a row joins the group of its (open-ended) predecessor
\* exactly when its from_date or its concrete to_date lies within
\* day_override days of the predecessor's from_date.
C6_OpenEndedPredecessorByThreshold ==
    pc = "grouped" =>
        \A i \in 1..Len(grouped) :
            LET r == grouped[i]
                p == grouped[i - 1]
            IN  (HasPredecessor(grouped, i) /\ OthersOpenEnded(grouped, i))
                => (r.group_id = p.group_id
                    <=> \/ r.from_date - p.from_date <= day_override
                        \/ (r.to_date # NULL /\ r.to_date - p.from_date <= day_override))

\* an open-ended predecessor and a row starting more than the threshold later
\* were put in different groups
C6_Witness ==
    /\ pc = "grouped"
    /\ \E i \in 1..Len(grouped) :
          /\ HasPredecessor(grouped, i)
          /\ OthersOpenEnded(grouped, i)
          /\ grouped[i].to_date # NULL
          /\ grouped[i].from_date - grouped[i - 1].from_date > day_override
          /\ grouped[i].group_id # grouped[i - 1].group_id

ChainEpisode(f, t) == [patient_id |-> 1, modality |-> 1, from_date |-> f, to_date |-> t]

\* the window holds exactly A (day 0 to 3), B (day 9 to 12) and C (day 18 to 21)
ChainScenario ==
    /\ Len(df) = 3
    /\ RowSet(df) = {ChainEpisode(0, 3), ChainEpisode(9, 12), ChainEpisode(18, 21)}
    /\ day_override = 5

\* C7 (as claimed): A, B and C end up in one group of size 3.
C7_ChainOneGroup ==
    (pc = "grouped" /\ ChainScenario)
        => Cardinality({grouped[i].group_id : i \in 1..Len(grouped)}) = 1

\* C7 (amended): A, B and C get three different group_ids: the gap between
\* consecutive episodes (3 to 9, 12 to 18) is 6 days, one more than the
\* threshold of 5, and no other pair of their endpoints is closer.
C7_ChainThreeGroups ==
    (pc = "grouped" /\ ChainScenario)
        => Cardinality({grouped[i].group_id : i \in 1..Len(grouped)}) = 3

C7_Witness == pc = "grouped" /\ ChainScenario /\ Len(grouped) = 3

----------------------------------------------------------------------------
(* Specification of the grouping step under several thresholds             *)

\* day_override: below every gap, the default, and above the gap of 6
Thresholds == {1, DefaultDayOverride, 7}

ThresholdDates == {0, 3, 9, 12}

ThresholdRows ==
    {r \in GroupRows :
        r.from_date \in ThresholdDates /\ r.to_date \in ThresholdDates \cup {NULL}}

ThresholdInit ==
    /\ pc = "group"
    /\ df \in Tables(ThresholdRows, MaxRows)
    /\ day_override \in Thresholds
    /\ grouped = Idle
    /\ reduced_source = Idle
    /\ df_collection = NoTables
    /\ combined_dataframe = Idle
    /\ reduced_dataframe = Idle
    /\ full_dataframe = Idle
    /\ existing_rows = Idle
    /\ new_rows = Idle
    /\ commit = FALSE
    /\ inserted = Idle

SpecThreshold == ThresholdInit /\ [][GroupNext]_vars

\* the windows of a table
WindowsOf(t) == {WindowKey(t[i], TreatmentWindow) : i \in 1..Len(t)}

\* the groups of one window of a grouped table
GroupsOf(t, w) ==
    {t[i].group_id : i \in {n \in 1..Len(t) : WindowKey(t[n], TreatmentWindow) = w}}

\* t groups together every pair of rows of one window that s groups
\* together, and has no more groups in any window
Coarser(t, s) ==
    /\ Len(t) = Len(s)
    /\ \A i, j \in 1..Len(s) :
          /\ WindowKey(s[i], TreatmentWindow) = WindowKey(s[j], TreatmentWindow)
          /\ s[i].group_id = s[j].group_id
          => t[i].group_id = t[j].group_id
    /\ \A w \in WindowsOf(s) :
          Cardinality(GroupsOf(t, w)) <= Cardinality(GroupsOf(s, w))

\* C14: the grouping of a table under a larger threshold is coarser than
\* its grouping under a smaller one: pairs stay together and no window
\* gains a group.
C14_ThresholdMonotone ==
    pc = "grouped" =>
        \A d \in Thresholds :
            d >= day_override =>
                Coarser(group_similar_or_overlapping_range(df, TreatmentWindow, d), grouped)

\* a larger threshold that merges two groups of a window
C14_Witness ==
    /\ pc = "grouped"
    /\ \E d \in Thresholds, w \in WindowsOf(grouped) :
          /\ d > day_override
          /\ Cardinality(GroupsOf(grouped, w)) = 3
          /\ Cardinality(GroupsOf(
                 group_similar_or_overlapping_range(df, TreatmentWindow, d), w)) = 1

----------------------------------------------------------------------------
(* Specification of the per-source reducer on its own                      *)

SourceSpans == {<<0, 3>>, <<0, NULL>>, <<3, 12>>, <<12, 18>>, <<12, NULL>>}

\* (created_date, modified_date) as a source reports them
Stamps == {<<NULL, NULL>>, <<1, NULL>>, <<1, 2>>}

Modalities == {1, 2}

SourceRows(label, stamps) ==
    {[id |-> NULL, patient_id |-> 1, modality |-> m, from_date |-> s[1],
      to_date |-> s[2], source_group_id |-> 1, source_type |-> label,
      created_date |-> c[1], modified_date |-> c[2]] :
        m \in Modalities, s \in SourceSpans, c \in stamps}

ReduceSourceInit ==
    /\ pc = "reduce_source"
    /\ df \in Tables(SourceRows("UKRDC", Stamps), MaxRows)
    /\ day_override = DefaultDayOverride
    /\ grouped = Idle
    /\ reduced_source = Idle
    /\ df_collection = NoTables
    /\ combined_dataframe = Idle
    /\ reduced_dataframe = Idle
    /\ full_dataframe = Idle
    /\ existing_rows = Idle
    /\ new_rows = Idle
    /\ commit = FALSE
    /\ inserted = Idle

ReduceSource ==
    /\ pc = "reduce_source"
    /\ grouped' = group_similar_or_overlapping_range(df, TreatmentWindow, DefaultDayOverride)
    /\ reduced_source' \in Orderings(group_and_reduce_ukrdc_or_rr_dataframe(df))
    /\ pc' = "reduced_source"
    /\ UNCHANGED <<df, day_override, df_collection, combined_dataframe,
                   reduced_dataframe, full_dataframe, existing_rows, new_rows,
                   commit, inserted>>

ReduceSourceNext == ReduceSource

SpecReduceSource == ReduceSourceInit /\ [][ReduceSourceNext]_vars

----------------------------------------------------------------------------
(* Properties of the per-source reducer *)

ClusterKey(r) == <<r.patient_id, r.modality, r.group_id>>

\* the concrete values of one column over a set of rows
Concrete(K, c) == {r[c] : r \in K} \ {NULL}

Least(S) == CHOOSE m \in S : \A x \in S : m <= x
Greatest(S) == CHOOSE m \in S : \A x \in S : m >= x

\* the earliest from_date of a cluster
EarliestFrom(K) == Least(Concrete(K, "from_date"))

\* the latest concrete to_date of a cluster, null when every to_date is null
LatestTo(K) ==
    IF Concrete(K, "to_date") = {} THEN NULL ELSE Greatest(Concrete(K, "to_date"))

\* C4 (as claimed): every output row of the per-source reducer has the
\* minimum from_date of its cluster and the maximum non-null to_date of its
\* cluster, a null to_date only when the whole cluster is open-ended.
C4_SourceSpanMinMax ==
    pc = "reduced_source" =>
        \A n \in 1..Len(reduced_source) :
            LET o == reduced_source[n]
                K == {r \in RowSet(grouped) : ClusterKey(r) = ClusterKey(o)}
            IN  /\ o.from_date = EarliestFrom(K)
                /\ o.to_date = LatestTo(K)

\* C20 (as claimed): two episodes of one patient with different modalities
\* whose start dates lie within 15 days leave the reducer as one row.
C20_TwoPassMergesModalities ==
    pc = "reduced_source"
        /\ Len(df) = 2
        /\ df[1].patient_id = df[2].patient_id
        /\ df[1].modality # df[2].modality
        /\ Abs(df[1].from_date - df[2].from_date) <= 15
    => Len(reduced_source) = 1

----------------------------------------------------------------------------
(* Specification of treatment_run from the formatted tables to the split   *)

MaxRadarRows == 2
MaxSourceRows == 1

RunSpans == {<<0, 3>>, <<3, 12>>, <<0, NULL>>}

\* rows of the canonical store: every row has its own id
RadarStamps == {<<1, NULL>>, <<2, 3>>}
RadarSources == {"UKRDC", "RADAR", "RR"}

RadarRows ==
    {[id |-> 0, patient_id |-> 1, modality |-> 1, from_date |-> s[1],
      to_date |-> s[2], source_group_id |-> 1, source_type |-> l,
      created_date |-> c[1], modified_date |-> c[2]] :
        s \in RunSpans, l \in RadarSources, c \in RadarStamps}

WithIds(t) == [i \in 1..Len(t) |-> [t[i] EXCEPT !.id = i]]

RadarTables == {WithIds(t) : t \in Tables(RadarRows, MaxRadarRows)}

\* format_treatment: UKRDC and RR rows carry no id; make_treatment_dfs: RR
\* rows carry no created_date and no modified_date
RunRows(label, stamps) ==
    {r \in SourceRows(label, stamps) :
        r.modality = 1 /\ <<r.from_date, r.to_date>> \in RunSpans}

UkrdcStamps == {<<NULL, NULL>>, <<2, NULL>>}
RrStamps == {<<NULL, NULL>>}

TreatmentInit ==
    /\ pc = "reduce_ukrdc"
    /\ df_collection \in
          [radar : RadarTables,
           ukrdc : Tables(RunRows("UKRDC", UkrdcStamps), MaxSourceRows),
           rr : Tables(RunRows("RR", RrStamps), MaxSourceRows)]
    /\ df = Idle
    /\ day_override = DefaultDayOverride
    /\ grouped = Idle
    /\ reduced_source = Idle
    /\ combined_dataframe = Idle
    /\ reduced_dataframe = Idle
    /\ full_dataframe = Idle
    /\ existing_rows = Idle
    /\ new_rows = Idle
    /\ commit = FALSE
    /\ inserted = Idle

ReduceUkrdc ==
    /\ pc = "reduce_ukrdc"
    /\ \E reduced \in Orderings(group_and_reduce_ukrdc_or_rr_dataframe(df_collection.ukrdc)) :
          df_collection' = [df_collection EXCEPT !.ukrdc = reduced]
    /\ pc' = "reduce_rr"
    /\ UNCHANGED <<df, day_override, grouped, reduced_source, combined_dataframe,
                   reduced_dataframe, full_dataframe, existing_rows, new_rows,
                   commit, inserted>>

ReduceRr ==
    /\ pc = "reduce_rr"
    /\ \E reduced \in Orderings(group_and_reduce_ukrdc_or_rr_dataframe(df_collection.rr)) :
          df_collection' = [df_collection EXCEPT !.rr = reduced]
    /\ pc' = "combine"
    /\ UNCHANGED <<df, day_override, grouped, reduced_source, combined_dataframe,
                   reduced_dataframe, full_dataframe, existing_rows, new_rows,
                   commit, inserted>>

Combine ==
    /\ pc = "combine"
    /\ combined_dataframe' =
          combine_frames(df_collection,
                         Columns(df_collection.radar \o df_collection.ukrdc
                                 \o df_collection.rr) \cup ReducedColumns)
    /\ pc' = "reduce_all"
    /\ UNCHANGED <<df, day_override, grouped, reduced_source, df_collection,
                   reduced_dataframe, full_dataframe, existing_rows, new_rows,
                   commit, inserted>>

ReduceAll ==
    /\ pc = "reduce_all"
    /\ reduced_dataframe' \in
          Orderings(group_and_reduce_combined_treatment_dataframe(combined_dataframe))
    /\ pc' = "split"
    /\ UNCHANGED <<df, day_override, grouped, reduced_source, df_collection,
                   combined_dataframe, full_dataframe, existing_rows, new_rows,
                   commit, inserted>>

\* existing_treatments, new_treatments =
\*     split_combined_dataframe(combined_dataframe, reduced_dataframe)
SplitRun ==
    /\ pc = "split"
    /\ full_dataframe' = combined_dataframe
    /\ existing_rows' = split_existing_rows(combined_dataframe, reduced_dataframe)
    /\ new_rows' = split_new_rows(combined_dataframe, reduced_dataframe)
    /\ pc' = "split_done"
    /\ UNCHANGED <<df, day_override, grouped, reduced_source, df_collection,
                   combined_dataframe, reduced_dataframe, commit, inserted>>

TreatmentNext == ReduceUkrdc \/ ReduceRr \/ Combine \/ ReduceAll \/ SplitRun

SpecTreatment == TreatmentInit /\ [][TreatmentNext]_vars

----------------------------------------------------------------------------
(* Specification of transplant_run from the formatted tables to the        *)
(* reduced table                                                           *)

MaxTransplantRows == 2

TransplantDates == {0, 3, 9}

\* transplants of the canonical store: an id each, no source_type column
RadarTransplants ==
    {[id |-> 0, patient_id |-> p, modality |-> 1, date |-> d,
      date_of_failure |-> NULL, source_group_id |-> 1] :
        p \in Patients, d \in TransplantDates}

\* format_transplant: source_group_id 200 and source_type RR, no id column
RrTransplants ==
    {[patient_id |-> p, modality |-> 2, date |-> d, date_of_failure |-> f,
      source_group_id |-> 200, source_type |-> "RR"] :
        p \in Patients, d \in TransplantDates, f \in {NULL, 12}}

\* df_collection after make_transplant_dfs and format_transplant
TransplantTables ==
    [radar : {WithIds(t) : t \in Tables(RadarTransplants, MaxTransplantRows)},
     ukrdc : {Idle},
     rr : Tables(RrTransplants, MaxTransplantRows)]

TransplantInit ==
    /\ pc = "reduce_rr_transplants"
    /\ df_collection \in TransplantTables
    /\ df = Idle
    /\ day_override = DefaultDayOverride
    /\ grouped = Idle
    /\ reduced_source = Idle
    /\ combined_dataframe = Idle
    /\ reduced_dataframe = Idle
    /\ full_dataframe = Idle
    /\ existing_rows = Idle
    /\ new_rows = Idle
    /\ commit = FALSE
    /\ inserted = Idle

ReduceRrTransplants ==
    /\ pc = "reduce_rr_transplants"
    /\ \E reduced \in Orderings(group_and_reduce_transplant_rr(df_collection.rr)) :
          df_collection' = [df_collection EXCEPT !.rr = reduced]
    /\ pc' = "merge_transplants"
    /\ UNCHANGED <<df, day_override, grouped, reduced_source, combined_dataframe,
                   reduced_dataframe, full_dataframe, existing_rows, new_rows,
                   commit, inserted>>

MergeTransplants ==
    /\ pc = "merge_transplants"
    /\ combined_dataframe' = merge_transplants(df_collection)
    /\ pc' = "reduce_transplants"
    /\ UNCHANGED <<df, day_override, grouped, reduced_source, df_collection,
                   reduced_dataframe, full_dataframe, existing_rows, new_rows,
                   commit, inserted>>

ReduceTransplants ==
    /\ pc = "reduce_transplants"
    /\ reduced_dataframe' \in Orderings(reduce_transplants(combined_dataframe))
    /\ pc' = "transplants_reduced"
    /\ UNCHANGED <<df, day_override, grouped, reduced_source, df_collection,
                   combined_dataframe, full_dataframe, existing_rows, new_rows,
                   commit, inserted>>

TransplantNext == ReduceRrTransplants \/ MergeTransplants \/ ReduceTransplants

SpecTransplant == TransplantInit /\ [][TransplantNext]_vars


----------------------------------------------------------------------------
(* Specification of treatment_run from the loaded tables                   *)

\* Mutant of check_nulls_in_column: the check never raises.
check_nulls_in_column_never(t, col) == FALSE

\* check_nulls_in_column(df, col) raises ValueError
check_nulls_in_column(t, col) == \E i \in 1..Len(t) : t[i][col] = NULL

\* df.filter(pl.col("modality").is_not_null())
modality_is_not_null(t) == SelectSeq(t, LAMBDA r : r.modality # NULL)

\* the rr table gets id, created_date and modified_date, all None
with_rr_columns(t) ==
    [i \in 1..Len(t) |->
        [c \in DOMAIN t[i] \cup {"id", "created_date", "modified_date"} |->
            IF c \in DOMAIN t[i] THEN t[i][c] ELSE NULL]]

\* make_treatment_dfs raises on a table with a null from_date; the
\* modality checks follow the filters
make_treatment_dfs_raises(raw) ==
    \/ check_nulls_in_column(raw.radar, "from_date")
    \/ check_nulls_in_column(raw.ukrdc, "from_date")
    \/ check_nulls_in_column(modality_is_not_null(raw.ukrdc), "modality")
    \/ check_nulls_in_column(with_rr_columns(raw.rr), "from_date")
    \/ check_nulls_in_column(modality_is_not_null(with_rr_columns(raw.rr)), "modality")

make_treatment_dfs(raw) ==
    [radar |-> raw.radar,
     ukrdc |-> modality_is_not_null(raw.ukrdc),
     rr |-> modality_is_not_null(with_rr_columns(raw.rr))]

\* radar_patient_id_map: ukrdcid 101 and rr_no 201 are patient 1
ukrdc_pat_map(p) == IF p = 101 THEN 1 ELSE "None"
rr_pat_map(p) == IF p = 201 THEN 1 ELSE "None"

\* satellite: satellite_code -> main_unit_code, other codes are kept
main_unit_code(c) == IF c = "SAT" THEN "MAIN" ELSE c

\* source_group_id_mapping: code -> id, other codes are kept
source_group_number(c) == IF c = "MAIN" THEN 1 ELSE c

\* codes: registry_code -> equiv_modality, default=None
equiv_modality(code) ==
    CASE code = 41 -> 1
      [] code = 42 -> 2
      [] OTHER -> NULL

format_ukrdc(t) ==
    [i \in 1..Len(t) |->
        [c \in DOMAIN t[i] \cup {"source_type"} |->
            CASE c = "id" -> NULL
              [] c = "source_type" -> "UKRDC"
              [] c = "source_group_id" -> source_group_number(main_unit_code(t[i][c]))
              [] c = "patient_id" -> ukrdc_pat_map(t[i][c])
              [] c = "modality" -> equiv_modality(t[i][c])
              [] OTHER -> t[i][c]]]

format_rr(t) ==
    [i \in 1..Len(t) |->
        [c \in DOMAIN t[i] \cup {"source_type"} |->
            CASE c = "id" -> NULL
              [] c = "source_type" -> "RR"
              [] c = "source_group_id" -> source_group_number(main_unit_code(t[i][c]))
              [] c = "patient_id" -> rr_pat_map(t[i][c])
              [] c = "modality" -> equiv_modality(t[i][c])
              [] OTHER -> t[i][c]]]

format_treatment(c) ==
    [radar |-> c.radar, ukrdc |-> format_ukrdc(c.ukrdc), rr |-> format_rr(c.rr)]

\* (from_date, to_date) as the databases hold them
LoadSpans == {<<NULL, 3>>, <<0, 3>>, <<3, 12>>}

\* admitreasoncode / treatment_modality: none, a mapped code, an unmapped one
LoadCodes == {NULL, 41, 99}

\* source_type of a stored row: a known label or another one
LoadSources == {"RADAR", "PV"}

LoadRadarRows ==
    {[id |-> 0, patient_id |-> 1, modality |-> 1, from_date |-> s[1],
      to_date |-> s[2], source_group_id |-> 1, source_type |-> l,
      created_date |-> 1, modified_date |-> NULL] :
        s \in LoadSpans, l \in LoadSources}

LoadUkrdcRows ==
    {[id |-> 7, patient_id |-> 101, modality |-> m, from_date |-> s[1],
      to_date |-> s[2], source_group_id |-> "SAT",
      created_date |-> 2, modified_date |-> NULL] :
        s \in LoadSpans, m \in LoadCodes}

LoadRrRows ==
    {[patient_id |-> 201, modality |-> m, from_date |-> s[1],
      to_date |-> s[2], source_group_id |-> "MAIN"] :
        s \in LoadSpans, m \in LoadCodes}

LoadInit ==
    /\ pc = "make_treatment_dfs"
    /\ df_collection \in
          [radar : {WithIds(t) : t \in Tables(LoadRadarRows, MaxRadarRows)},
           ukrdc : Tables(LoadUkrdcRows, MaxSourceRows),
           rr : Tables(LoadRrRows, MaxSourceRows)]
    /\ df = Idle
    /\ day_override = DefaultDayOverride
    /\ grouped = Idle
    /\ reduced_source = Idle
    /\ combined_dataframe = Idle
    /\ reduced_dataframe = Idle
    /\ full_dataframe = Idle
    /\ existing_rows = Idle
    /\ new_rows = Idle
    /\ commit = FALSE
    /\ inserted = Idle

\* df_collection = make_treatment_dfs(...): the run ends on a ValueError
MakeTreatmentDfs ==
    /\ pc = "make_treatment_dfs"
    /\ IF make_treatment_dfs_raises(df_collection)
       THEN pc' = "raised" /\ UNCHANGED df_collection
       ELSE pc' = "format_treatment" /\ df_collection' = make_treatment_dfs(df_collection)
    /\ UNCHANGED <<df, day_override, grouped, reduced_source, combined_dataframe,
                   reduced_dataframe, full_dataframe, existing_rows, new_rows,
                   commit, inserted>>

FormatTreatment ==
    /\ pc = "format_treatment"
    /\ df_collection' = format_treatment(df_collection)
    /\ pc' = "reduce_ukrdc"
    /\ UNCHANGED <<df, day_override, grouped, reduced_source, combined_dataframe,
                   reduced_dataframe, full_dataframe, existing_rows, new_rows,
                   commit, inserted>>

LoadNext == MakeTreatmentDfs \/ FormatTreatment

SpecLoad == LoadInit /\ [][LoadNext \/ TreatmentNext]_vars

----------------------------------------------------------------------------
(* Specification of transplant_run from the loaded tables                  *)

\* pl.col(c) == value and pl.col(c).is_in(values) on a string column
KEq(a, b) == IF a = NULL_STR THEN KNULL ELSE IF a = b THEN KTRUE ELSE KFALSE
KIsIn(a, S) == IF a = NULL_STR THEN KNULL ELSE IF a \in S THEN KTRUE ELSE KFALSE

alive(ttype) == KIsIn(ttype, {"Live"})
dead(ttype) == KIsIn(ttype, {"DCD", "DBD"})

\* Mutant of rr_modality: the parent rules are tried before the child rule
\* and relationship 0 counts as a parent.
rr_modality_parent_first(ttype, trel, tsex) ==
    IF KAnd(KAnd(alive(ttype), KIsIn(trel, {"0", "2"})), KEq(tsex, "1")) = KTRUE THEN 74
    ELSE IF KAnd(alive(ttype), KEq(trel, "0")) = KTRUE THEN 77
    ELSE IF KAnd(alive(ttype), KIsIn(trel, {"3", "4", "5", "6", "7", "8"})) = KTRUE THEN 21
    ELSE IF KAnd(KAnd(alive(ttype), KEq(trel, "2")), KEq(tsex, "2")) = KTRUE THEN 75
    ELSE IF KAnd(alive(ttype), KEq(trel, "9")) = KTRUE THEN 23
    ELSE IF KAnd(alive(ttype), KIsIn(trel, {"11", "12", "15", "16", "19", "10"})) = KTRUE
         THEN 24
    ELSE IF dead(ttype) = KTRUE THEN 20
    ELSE IF KIsIn(trel, {"88", "99"}) = KTRUE THEN 99
    ELSE NULL

\* the pl.when(...).then(...) chain: the first condition that is true
rr_modality(ttype, trel, tsex) ==
    IF KAnd(alive(ttype), KEq(trel, "0")) = KTRUE THEN 77
    ELSE IF KAnd(alive(ttype), KIsIn(trel, {"3", "4", "5", "6", "7", "8"})) = KTRUE THEN 21
    ELSE IF KAnd(KAnd(alive(ttype), KEq(trel, "2")), KEq(tsex, "1")) = KTRUE THEN 74
    ELSE IF KAnd(KAnd(alive(ttype), KEq(trel, "2")), KEq(tsex, "2")) = KTRUE THEN 75
    ELSE IF KAnd(alive(ttype), KEq(trel, "9")) = KTRUE THEN 23
    ELSE IF KAnd(alive(ttype), KIsIn(trel, {"11", "12", "15", "16", "19", "10"})) = KTRUE
         THEN 24
    ELSE IF dead(ttype) = KTRUE THEN 20
    ELSE IF KIsIn(trel, {"88", "99"}) = KTRUE THEN 99
    ELSE NULL

get_rr_transplant_modality(rr_df) ==
    [i \in 1..Len(rr_df) |->
        [rr_df[i] EXCEPT !.modality =
            rr_modality(@, rr_df[i].transplant_relationship, rr_df[i].transplant_sex)]]

\* radar.Group of type HOSPITAL: code -> id, default=None
hospital_id(c) == IF c = "RXX" THEN 10 ELSE NULL

convert_transplant_unit(rr_df) ==
    [i \in 1..Len(rr_df) |-> [rr_df[i] EXCEPT !.source_group_id = hospital_id(@)]]

with_radar_patient_id(rr_df) ==
    [i \in 1..Len(rr_df) |-> [rr_df[i] EXCEPT !.patient_id = rr_pat_map(@)]]

\* drop the relationship and sex columns, source_group_id 200, source_type RR
as_rr_transplants(rr_df) ==
    [i \in 1..Len(rr_df) |->
        [c \in (DOMAIN rr_df[i] \ {"transplant_relationship", "transplant_sex"})
                \cup {"source_type"} |->
            CASE c = "source_group_id" -> 200
              [] c = "source_type" -> "RR"
              [] OTHER -> rr_df[i][c]]]

format_transplant(c) ==
    [c EXCEPT !.rr = as_rr_transplants(get_rr_transplant_modality(
                         convert_transplant_unit(with_radar_patient_id(@))))]

TransplantTypes == {"Live", "DCD", "DBD", "Other", NULL_STR}

Relationships ==
    {"0", "1", "2", "3", "4", "5", "6", "7", "8", "9", "10", "11", "12", "13", "15",
     "16", "19", "88", "99", NULL_STR}

Sexes == {"1", "2", "8", NULL_STR}

\* rows of nhsbt.UKTTransplant joined with nhsbt.UKTSites
LoadRrTransplants ==
    {[patient_id |-> 201, modality |-> t, date |-> 3, date_of_failure |-> NULL,
      transplant_relationship |-> r, transplant_sex |-> x, source_group_id |-> "RXX"] :
        t \in TransplantTypes, r \in Relationships, x \in Sexes}

LoadRadarTransplants == {r \in RadarTransplants : r.patient_id = 1}

TransplantLoadInit ==
    /\ pc = "format_transplant"
    /\ df_collection \in
          [radar : {WithIds(t) : t \in Tables(LoadRadarTransplants, MaxTransplantRows)},
           ukrdc : {Idle},
           rr : Tables(LoadRrTransplants, MaxSourceRows)]
    /\ df = df_collection.rr
    /\ day_override = DefaultDayOverride
    /\ grouped = Idle
    /\ reduced_source = Idle
    /\ combined_dataframe = Idle
    /\ reduced_dataframe = Idle
    /\ full_dataframe = Idle
    /\ existing_rows = Idle
    /\ new_rows = Idle
    /\ commit = FALSE
    /\ inserted = Idle

\* df_collection = format_transplant(df_collection, radar_patient_id_map, sessions)
FormatTransplant ==
    /\ pc = "format_transplant"
    /\ df_collection' = format_transplant(df_collection)
    /\ pc' = "reduce_rr_transplants"
    /\ UNCHANGED <<df, day_override, grouped, reduced_source, combined_dataframe,
                   reduced_dataframe, full_dataframe, existing_rows, new_rows,
                   commit, inserted>>

SpecTransplantLoad == TransplantLoadInit /\ [][FormatTransplant \/ TransplantNext]_vars

----------------------------------------------------------------------------
(* Specification of transplant_run from the formatted tables to the write  *)

KNot(a) == IF a = KTRUE THEN KFALSE ELSE IF a = KFALSE THEN KTRUE ELSE KNULL

SourceLabels == {"NHSBT LIST", "BATCH", "UKRDC", "RADAR", "RR"}

\* what is_in gives a null source_type depends on the polars build: null
\* (nulls propagate) or false
NullIsIn == {KNULL, KFALSE}

\* all_transplants.filter(~pl.col("source_type").is_in([...])) is not empty
unknown_source_type(t, null_is_in) ==
    \E i \in 1..Len(t) :
        KNot(IF t[i].source_type = NULL_STR THEN null_is_in
             ELSE KIsIn(t[i].source_type, SourceLabels)) = KTRUE

\* all_transplants.filter(pl.col("patient_id").is_null()) is not empty
null_patient_id(t) == \E i \in 1..Len(t) : t[i].patient_id = NULL

\* stored transplants, some without patient
RunRadarTransplants ==
    {[id |-> 0, patient_id |-> p, modality |-> 1, date |-> d,
      date_of_failure |-> NULL, source_group_id |-> 1] :
        p \in {NULL, 1}, d \in TransplantDates}

RunRrTransplants == {r \in RrTransplants : r.patient_id = 1}

TransplantRunInit ==
    /\ pc = "reduce_rr_transplants"
    /\ df_collection \in
          [radar : {WithIds(t) : t \in Tables(RunRadarTransplants, MaxTransplantRows)},
           ukrdc : {Idle},
           rr : Tables(RunRrTransplants, MaxTransplantRows)]
    /\ commit \in BOOLEAN
    /\ df = Idle
    /\ day_override = DefaultDayOverride
    /\ grouped = Idle
    /\ reduced_source = Idle
    /\ combined_dataframe = Idle
    /\ reduced_dataframe = Idle
    /\ full_dataframe = Idle
    /\ existing_rows = Idle
    /\ new_rows = Idle
    /\ inserted = Idle

\* the new and the updated rows are set apart for the audit; the sanity
\* checks end the run on a ValueError
SanityChecks ==
    /\ pc = "transplants_reduced"
    /\ new_rows' = SelectSeq(reduced_dataframe, LAMBDA r : r.id = NULL)
    /\ existing_rows' = SelectSeq(reduced_dataframe, NotNullId)
    /\ \E null_is_in \in NullIsIn :
          pc' = IF \/ unknown_source_type(reduced_dataframe, null_is_in)
                   \/ null_patient_id(reduced_dataframe)
                THEN "raised" ELSE "write_transplants"
    /\ UNCHANGED <<df, day_override, grouped, reduced_source, df_collection,
                   combined_dataframe, reduced_dataframe, full_dataframe,
                   commit, inserted>>

\* if commit: df_batch_insert_to_sql(all_transplants, ...)
WriteTransplants ==
    /\ pc = "write_transplants"
    /\ inserted' = IF commit THEN inserted \o reduced_dataframe ELSE inserted
    /\ pc' = "done"
    /\ UNCHANGED <<df, day_override, grouped, reduced_source, df_collection,
                   combined_dataframe, reduced_dataframe, full_dataframe,
                   existing_rows, new_rows, commit>>

TransplantEnd == SanityChecks \/ WriteTransplants

SpecTransplantRun == TransplantRunInit /\ [][TransplantNext \/ TransplantEnd]_vars

\* a reconciled row the sanity checks are meant to stop
Insane(r) == r.patient_id = NULL \/ r.source_type \notin SourceLabels

\* C19: the run gets past the sanity checks, and hands a table to
\* df_batch_insert_to_sql, only when no reconciled row lacks a patient_id
\* or has a source_type outside the five labels, null included.
C19_SanityCheckPrecedesPersistence ==
    /\ pc \in {"write_transplants", "done"} =>
          \A i \in 1..Len(reduced_dataframe) : ~Insane(reduced_dataframe[i])
    /\ \A i \in 1..Len(inserted) : ~Insane(inserted[i])

\* the relationship codes of the living rules
LivingCodes ==
    {"0", "2", "3", "4", "5", "6", "7", "8", "9", "10", "11", "12", "15", "16", "19"}

\* the modality the decision table gives a transplant type, relationship
\* code and sex code: the code of the first rule that matches (only the
\* last two rules can match together)
TableModality(t, r, x) ==
    CASE t = "Live" /\ r = "0" -> 77
      [] t = "Live" /\ r \in {"3", "4", "5", "6", "7", "8"} -> 21
      [] t = "Live" /\ r = "2" /\ x = "1" -> 74
      [] t = "Live" /\ r = "2" /\ x = "2" -> 75
      [] t = "Live" /\ r = "9" -> 23
      [] t = "Live" /\ r \in {"10", "11", "12", "15", "16", "19"} -> 24
      [] t \in {"DCD", "DBD"} -> 20
      [] t \notin {"DCD", "DBD"} /\ r \in {"88", "99"} -> 99
      [] OTHER -> NULL

\* C17: every formatted RR transplant has the modality of the first rule of
\* the decision table that its transplant type, relationship code and sex
\* code match, and a null modality when no rule matches; so a Live
\* transplant with a living relationship code and sex 1 or 2 has a modality.
C17_ModalityTable ==
    pc = "reduce_rr_transplants" /\ df # Idle =>
        /\ Len(df_collection.rr) = Len(df)
        /\ \A i \in 1..Len(df) :
              /\ df_collection.rr[i].modality =
                    TableModality(df[i].modality, df[i].transplant_relationship,
                                  df[i].transplant_sex)
              /\ df[i].modality = "Live"
                    /\ df[i].transplant_relationship \in LivingCodes
                    /\ df[i].transplant_sex \in {"1", "2"}
                 => df_collection.rr[i].modality # NULL

\* a Live transplant from a mother
C17_Witness ==
    /\ pc = "reduce_rr_transplants"
    /\ \E i \in 1..Len(df) :
          /\ df[i].modality = "Live"
          /\ df[i].transplant_relationship = "2"
          /\ df[i].transplant_sex = "2"
          /\ df_collection.rr[i].modality = 75

\* either run, from its loaded tables
SpecFormat ==
    (LoadInit \/ TransplantLoadInit)
        /\ [][LoadNext \/ TreatmentNext \/ FormatTransplant \/ TransplantNext]_vars

NullModality(t) == \E i \in 1..Len(t) : t[i].modality = NULL

\* C18: once the tables are formatted, no table that is grouped, reduced or
\* emitted holds a row without modality.
C18_NullModalityDropped ==
    pc \notin {"make_treatment_dfs", "format_treatment", "format_transplant", "raised"} =>
        /\ ~NullModality(df_collection.ukrdc \o df_collection.rr)
        /\ ~NullModality(combined_dataframe)
        /\ ~NullModality(reduced_dataframe)
        /\ ~NullModality(new_rows)

\* the grouping step called on rows without from_date
NullStartRows ==
    {[patient_id |-> 1, modality |-> 1, from_date |-> f, to_date |-> t] :
        f \in {NULL, 0, 3}, t \in {NULL, 3, 9}}

NullStartInit ==
    /\ pc = "group"
    /\ df \in Tables(NullStartRows, MaxRows)
    /\ day_override = DefaultDayOverride
    /\ grouped = Idle
    /\ reduced_source = Idle
    /\ df_collection = NoTables
    /\ combined_dataframe = Idle
    /\ reduced_dataframe = Idle
    /\ full_dataframe = Idle
    /\ existing_rows = Idle
    /\ new_rows = Idle
    /\ commit = FALSE
    /\ inserted = Idle

\* the grouping step on its own, or the run from the loaded tables
SpecNullStart ==
    (NullStartInit \/ LoadInit) /\ [][GroupNext \/ LoadNext \/ TreatmentNext]_vars

NullStart(t) == \E i \in 1..Len(t) : t[i].from_date = NULL

\* C15 as stated: the grouping step returns no grouped table for an input
\* with a null from_date.
C15_GroupingRejectsNullStart == pc = "grouped" => ~NullStart(df)

\* C15: a loaded table with a null from_date ends the run in
\* make_treatment_dfs, so no row without from_date reaches formatting,
\* grouping or reduction in a run, and the run is ended for no other
\* reason; the grouping step itself returns every row it is given with a
\* group_id, null from_date or not.
C15_NullStartRejectedAtLoad ==
    /\ pc = "raised" =>
          NullStart(df_collection.radar \o df_collection.ukrdc \o df_collection.rr)
    /\ pc \in {"format_treatment", "reduce_ukrdc", "reduce_rr", "combine",
               "reduce_all", "split", "split_done"} =>
          /\ ~NullStart(df_collection.radar \o df_collection.ukrdc \o df_collection.rr)
          /\ ~NullStart(combined_dataframe)
          /\ ~NullStart(reduced_dataframe)
    /\ pc = "grouped" =>
          /\ Len(grouped) = Len(df)
          /\ \A i \in 1..Len(grouped) : grouped[i].group_id \in 0..(Len(df) - 1)

\* a run ended by a null from_date of the rr table alone
C15_Witness ==
    /\ pc = "raised"
    /\ ~NullStart(df_collection.radar \o df_collection.ukrdc)
    /\ NullStart(df_collection.rr)

\* C16: the merge does not return when a row of its input has a
\* source_type outside the priority order, so no such row is grouped with a
\* null priority.
C16_UnknownSourceAborts ==
    pc \in {"reduce_all", "split", "split_done"} =>
        /\ \A i \in 1..Len(df_collection.radar) :
              Priority(df_collection.radar[i].source_type) # NULL
        /\ \A i \in 1..Len(combined_dataframe) : combined_dataframe[i].source_type # NULL

----------------------------------------------------------------------------
(* Specification of the treatment reducers over several windows            *)

WindowSpans == {<<0, 3>>, <<3, 12>>}

\* rows of both patients and both modalities
WindowRows(label, id) ==
    {[id |-> id, patient_id |-> p, modality |-> m, from_date |-> s[1],
      to_date |-> s[2], source_group_id |-> 1, source_type |-> label,
      created_date |-> 1, modified_date |-> NULL] :
        p \in Patients, m \in Modalities, s \in WindowSpans}

WindowsInit ==
    /\ pc = "reduce_ukrdc"
    /\ df_collection \in
          [radar : {WithIds(t) : t \in Tables(WindowRows("RADAR", 0), MaxRadarRows)},
           ukrdc : Tables(WindowRows("UKRDC", NULL), MaxSourceRows),
           rr : Tables(WindowRows("RR", NULL), MaxSourceRows)]
    /\ df = Idle
    /\ day_override = DefaultDayOverride
    /\ grouped = Idle
    /\ reduced_source = Idle
    /\ combined_dataframe = Idle
    /\ reduced_dataframe = Idle
    /\ full_dataframe = Idle
    /\ existing_rows = Idle
    /\ new_rows = Idle
    /\ commit = FALSE
    /\ inserted = Idle

\* the per-source reducer on its own, or the run, over several windows
SpecWindows ==
    (ReduceSourceInit \/ WindowsInit) /\ [][ReduceSourceNext \/ TreatmentNext]_vars

Reduced == pc \in {"split", "split_done"}

\* the rows of one window
InWindow(t, w) == SelectSeq(t, LAMBDA r : WindowKey(r, TreatmentWindow) = w)

CollectionInWindow(c, w) ==
    [radar |-> InWindow(c.radar, w), ukrdc |-> InWindow(c.ukrdc, w),
     rr |-> InWindow(c.rr, w)]

CollectionRows(c) == c.radar \o c.ukrdc \o c.rr

\* C13: what a window contributes to the grouped table and to the reduced
\* table of a source, and to the canonical table of the run, is what the
\* rows of that window give on their own, whatever the other windows hold
\* (the rows of a reduction in any order);
\* so every window of the input has canonical rows of its own.
C13_WindowIsolation ==
    /\ pc = "reduced_source" =>
          \A w \in WindowsOf(df) :
              /\ InWindow(grouped, w) =
                    group_similar_or_overlapping_range(InWindow(df, w), TreatmentWindow,
                                                       DefaultDayOverride)
              /\ InWindow(reduced_source, w) \in
                    Orderings(group_and_reduce_ukrdc_or_rr_dataframe(InWindow(df, w)))
    /\ Reduced =>
          /\ WindowsOf(reduced_dataframe) = WindowsOf(CollectionRows(df_collection))
          /\ \A w \in WindowsOf(reduced_dataframe) :
                InWindow(reduced_dataframe, w) \in
                    Orderings(group_and_reduce_combined_treatment_dataframe(
                        combine_treatment_dataframes(CollectionInWindow(df_collection, w))))

\* two windows whose episodes have equal dates and equal group_id numbers
C13_Witness ==
    /\ Reduced
    /\ Len(reduced_dataframe) = 2
    /\ \E i, j \in 1..Len(combined_dataframe) :
          /\ combined_dataframe[i].modality # combined_dataframe[j].modality
          /\ combined_dataframe[i].patient_id = combined_dataframe[j].patient_id
          /\ combined_dataframe[i].from_date = combined_dataframe[j].from_date
          /\ combined_dataframe[i].group_id = combined_dataframe[j].group_id

----------------------------------------------------------------------------
(* Properties of the cross-source reducer *)

\* the clusters of the merged table: window keys and group_id
ClusterKeys == {ClusterKey(r) : r \in RowSet(combined_dataframe)}
Cluster(k) == {r \in RowSet(combined_dataframe) : ClusterKey(r) = k}
IdRows(K) == {r \in K : r.id # NULL}

\* the value a ranks below the value b: a null ranks below every concrete
\* value
Below(a, b) == a # b /\ (a = NULL \/ (b # NULL /\ a < b))

\* s is ranked strictly before r: higher source priority, or the same
\* priority and a later recency, or the same priority and recency and a later
\* from_date.  An unknown priority and a missing recency rank lowest.
Outranks(s, r) ==
    \/ Below(r.source_type, s.source_type)
    \/ /\ s.source_type = r.source_type
       /\ Below(r.recent_date, s.recent_date)
    \/ /\ s.source_type = r.source_type
       /\ s.recent_date = r.recent_date
       /\ Below(r.from_date, s.from_date)

\* the rows of K that no row of K outranks
TopRanked(K) == {r \in K : \A s \in K : ~Outranks(s, r)}

\* s comes strictly before r in the order PrioritySort gives the rows of one
\* patient
SortsBefore(s, r) ==
    LexLt(RowKey(s, <<"source_type", "recent_date", "from_date">>, AllOf(3, TRUE), FALSE),
          RowKey(r, <<"source_type", "recent_date", "from_date">>, AllOf(3, TRUE), FALSE))

\* the rows of K that PrioritySort puts before every row of K with another
\* sort key
FirstSorted(K) == {r \in K : \A s \in K : ~SortsBefore(s, r)}

\* the one-to-one assignments of canonical rows to clusters
Assignments ==
    {f \in [1..Len(reduced_dataframe) -> ClusterKeys] :
        /\ \A k \in ClusterKeys : \E n \in 1..Len(reduced_dataframe) : f[n] = k
        /\ \A n \in 1..Len(reduced_dataframe) :
              /\ \A m \in 1..Len(reduced_dataframe) : f[m] = f[n] => m = n
              /\ reduced_dataframe[n].patient_id = f[n][1]
              /\ reduced_dataframe[n].modality = f[n][2]}

\* the clusters of the merged transplants: patient and group_id
TransplantKey(r) == <<r.patient_id, r.group_id>>
TransplantKeys == {TransplantKey(r) : r \in RowSet(combined_dataframe)}
TransplantCluster(k) == {r \in RowSet(combined_dataframe) : TransplantKey(r) = k}

\* transplants are ranked by source priority alone
TopRankedTransplants(K) ==
    {r \in K : \A s \in K :
        ~(s.source_type # NULL /\ r.source_type # NULL /\ s.source_type > r.source_type)}

TransplantAssignments ==
    {f \in [1..Len(reduced_dataframe) -> TransplantKeys] :
        /\ \A k \in TransplantKeys : \E n \in 1..Len(reduced_dataframe) : f[n] = k
        /\ \A n \in 1..Len(reduced_dataframe) :
              /\ \A m \in 1..Len(reduced_dataframe) : f[m] = f[n] => m = n
              /\ reduced_dataframe[n].patient_id = f[n][1]}

\* C1: in the treatment reducer and in the transplant reducer alike,
\* each cluster has one canonical row; when some row of the cluster
\* carries an id the canonical id is the id of the highest-ranked such row,
\* and the canonical id is null only when no row of the cluster carries one.
C1_IdPreserved ==
    /\ Reduced =>
          \E f \in Assignments :
              \A n \in 1..Len(reduced_dataframe) :
                  LET c == reduced_dataframe[n]
                      K == Cluster(f[n])
                  IN  IF IdRows(K) = {} THEN c.id = NULL
                      ELSE \E r \in TopRanked(IdRows(K)) : c.id = r.id
    /\ pc = "transplants_reduced" =>
          \E f \in TransplantAssignments :
              \A n \in 1..Len(reduced_dataframe) :
                  LET c == reduced_dataframe[n]
                      K == TransplantCluster(f[n])
                  IN  IF IdRows(K) = {} THEN c.id = NULL
                      ELSE \E r \in TopRankedTransplants(IdRows(K)) : c.id = r.id

\* a cluster whose top-ranked row has no id while a lower row has one, and
\* the canonical row carries that id
C1_Witness ==
    /\ Reduced
    /\ \E k \in ClusterKeys :
          \E r \in Cluster(k), s \in Cluster(k) :
              /\ r.id = NULL /\ s.id # NULL
              /\ Outranks(r, s)
              /\ \E n \in 1..Len(reduced_dataframe) : reduced_dataframe[n].id = s.id

\* C2 (as claimed): source_type, source_group_id, created_date and
\* modified_date of a canonical row all come from one row of its cluster, a
\* row that no other row outranks by priority, then recency (a missing
\* recency lowest), then from_date; so a cluster holding an RR row yields
\* source_type RR.
C2_TopRankedAttributes ==
    Reduced =>
        \E f \in Assignments :
            \A n \in 1..Len(reduced_dataframe) :
                LET c == reduced_dataframe[n]
                    K == Cluster(f[n])
                IN  /\ \E r \in TopRanked(K) :
                          /\ c.source_type = SourceLabel(r.source_type)
                          /\ c.source_group_id = r.source_group_id
                          /\ c.created_date = r.created_date
                          /\ c.modified_date = r.modified_date
                    /\ (\E r \in K : r.source_type = Priority("RR"))
                          => c.source_type = "RR"

\* C5 (as claimed): the canonical from_date is the minimum from_date of the
\* cluster and the canonical to_date its maximum non-null to_date.
C5_CombinedSpanMinMax ==
    Reduced =>
        \E f \in Assignments :
            \A n \in 1..Len(reduced_dataframe) :
                /\ reduced_dataframe[n].from_date = EarliestFrom(Cluster(f[n]))
                /\ reduced_dataframe[n].to_date = LatestTo(Cluster(f[n]))

\* C5 (amended): the canonical from_date and to_date are those of the
\* top-ranked row of the cluster, the row first in the reducer's sort, like
\* every other attribute; they are not widened to the earliest start and
\* latest end of the cluster.
C5_CombinedSpanOfTopRow ==
    Reduced =>
        \E f \in Assignments :
            \A n \in 1..Len(reduced_dataframe) :
                \E r \in FirstSorted(Cluster(f[n])) :
                    /\ reduced_dataframe[n].from_date = r.from_date
                    /\ reduced_dataframe[n].to_date = r.to_date
                    /\ reduced_dataframe[n].source_type = SourceLabel(r.source_type)
                    /\ reduced_dataframe[n].source_group_id = r.source_group_id
                    /\ reduced_dataframe[n].created_date = r.created_date
                    /\ reduced_dataframe[n].modified_date = r.modified_date

\* a cluster whose only top-ranked row starts after the earliest start of
\* the cluster, reduced to a row with the top-ranked row's dates
C5_Witness ==
    /\ Reduced
    /\ \E k \in ClusterKeys :
          \E r \in Cluster(k) :
              /\ FirstSorted(Cluster(k)) = {r}
              /\ TopRanked(Cluster(k)) = {r}
              /\ r.from_date > EarliestFrom(Cluster(k))
              /\ \E n \in 1..Len(reduced_dataframe) :
                    /\ reduced_dataframe[n].from_date = r.from_date
                    /\ reduced_dataframe[n].to_date = r.to_date

----------------------------------------------------------------------------
(* Specification of split_combined_dataframe on its own                    *)

MaxPriorRows == 2
MaxCanonicalRows == 2
MaxId == 3

\* the prior full table: one row per id, source_type still a priority number
PriorRows ==
    {[id |-> 0, patient_id |-> 1, modality |-> 1, from_date |-> 0, to_date |-> t,
      source_group_id |-> 1, source_type |-> 3, created_date |-> c,
      modified_date |-> NULL] :
        t \in {3, NULL}, c \in {1, 2}}

\* canonical rows: no id, the id of a prior row, or an id no prior row has
CanonicalRows ==
    {[id |-> i, patient_id |-> 1, modality |-> 1, from_date |-> 0, to_date |-> t,
      source_group_id |-> 1, source_type |-> l, created_date |-> c,
      modified_date |-> NULL] :
        i \in {NULL} \cup 1..MaxId, t \in {3, NULL}, c \in {1, 2}, l \in {"RADAR", "RR"}}

SplitInit ==
    /\ pc = "split_call"
    /\ full_dataframe \in {WithIds(t) : t \in Tables(PriorRows, MaxPriorRows)}
    /\ reduced_dataframe \in Tables(CanonicalRows, MaxCanonicalRows)
    /\ df = Idle
    /\ day_override = DefaultDayOverride
    /\ grouped = Idle
    /\ reduced_source = Idle
    /\ df_collection = NoTables
    /\ combined_dataframe = Idle
    /\ existing_rows = Idle
    /\ new_rows = Idle
    /\ commit = FALSE
    /\ inserted = Idle

Split ==
    /\ pc = "split_call"
    /\ existing_rows' = split_existing_rows(full_dataframe, reduced_dataframe)
    /\ new_rows' = split_new_rows(full_dataframe, reduced_dataframe)
    /\ pc' = "split_returned"
    /\ UNCHANGED <<df, day_override, grouped, reduced_source, df_collection,
                   combined_dataframe, reduced_dataframe, full_dataframe,
                   commit, inserted>>

SplitNext == Split

SpecSplit == SplitInit /\ [][SplitNext]_vars

----------------------------------------------------------------------------
(* Properties of the split *)

\* the prior record of row i of the full table, as the split compares it
PriorRecord(i) ==
    [Select(full_dataframe[i], SelectedColumns) EXCEPT !.source_type = SourceLabel(@)]

PriorRecords == {PriorRecord(i) : i \in 1..Len(full_dataframe)}

\* c as the update table holds it: created_date restored from the prior record p
Restored(c, p) == [c EXCEPT !.created_date = p.created_date]

\* the columns whose change makes an update: every column but the id and the
\* immutable created_date
MutableColumns == {ComparedColumns[k] : k \in 1..Len(ComparedColumns)} \ {"created_date"}

\* C8 (as claimed): a candidate with an id that differs from the prior row
\* of the same id in at least one column, a change between null and a
\* concrete value included, appears in the update table.
C8_RealChangeKept ==
    pc = "split_returned" =>
        \A n \in 1..Len(reduced_dataframe) :
            \A p \in PriorRecords :
                LET c == reduced_dataframe[n]
                IN  (/\ c.id # NULL
                     /\ p.id = c.id
                     /\ \E col \in MutableColumns : c[col] # p[col])
                    => \E m \in 1..Len(existing_rows) : existing_rows[m] = Restored(c, p)

\* C9 (as claimed): no row of the update table equals, field for field, the
\* prior record of its id once its created_date has been restored.
C9_NoOpSuppressed ==
    pc = "split_returned" =>
        \A m \in 1..Len(existing_rows) : existing_rows[m] \notin PriorRecords

\* C10 (as claimed): the split does not return when the canonical table
\* holds an id that no row of the prior full table has.
C10_UnknownIdFatal ==
    pc = "split_returned" =>
        \A n \in 1..Len(reduced_dataframe) :
            reduced_dataframe[n].id # NULL
                => \E i \in 1..Len(full_dataframe) :
                      full_dataframe[i].id = reduced_dataframe[n].id

\* the number of rows of t equal to r
Count(t, r) == Cardinality({i \in 1..Len(t) : t[i] = r})

\* C11: the new table holds exactly the canonical rows without id, each as
\* often as the canonical table does; every row of the update table has an
\* id, the id of a canonical row; so no canonical row is in both tables.
C11_SplitPartition ==
    pc = "split_returned" =>
        /\ \A r \in RowSet(reduced_dataframe) \cup RowSet(new_rows) :
              Count(new_rows, r) = IF r.id = NULL THEN Count(reduced_dataframe, r) ELSE 0
        /\ \A m \in 1..Len(existing_rows) :
              /\ existing_rows[m].id # NULL
              /\ \E n \in 1..Len(reduced_dataframe) :
                    reduced_dataframe[n].id = existing_rows[m].id
        /\ \A m \in 1..Len(existing_rows), n \in 1..Len(new_rows) :
              existing_rows[m].id # new_rows[n].id

\* a canonical table with a row for each table of the split
C11_Witness ==
    /\ pc = "split_returned"
    /\ Len(reduced_dataframe) = 2
    /\ Len(new_rows) = 1
    /\ Len(existing_rows) = 1

\* C12: every row of the update table has the created_date of the prior
\* row of its id and, in every other column, the values of a canonical row
\* of that id.
C12_CreatedDateRestored ==
    pc = "split_returned" =>
        \A m \in 1..Len(existing_rows) :
            LET e == existing_rows[m]
            IN  /\ \E p \in PriorRecords : p.id = e.id
                /\ \A p \in PriorRecords : p.id = e.id => e.created_date = p.created_date
                /\ \E n \in 1..Len(reduced_dataframe) :
                      /\ reduced_dataframe[n].id = e.id
                      /\ \A col \in DOMAIN e \ {"created_date"} :
                            e[col] = reduced_dataframe[n][col]

\* an update row whose canonical row carried another created_date than the
\* prior row
C12_Witness ==
    /\ pc = "split_returned"
    /\ \E m \in 1..Len(existing_rows), n \in 1..Len(reduced_dataframe) :
          /\ reduced_dataframe[n].id = existing_rows[m].id
          /\ reduced_dataframe[n].created_date # existing_rows[m].created_date
          /\ reduced_dataframe[n].to_date = existing_rows[m].to_date

----------------------------------------------------------------------------
(* The merge and reduction of utils/treatment_utils.py: one window per     *)
(* patient, 15 days, priorities BATCH < UKRDC < RADAR < RR                 *)

\* source_type.replace(old=["BATCH", "UKRDC", "RADAR", "RR"],
\*                     new=["0", "1", "2", "3"], default=None).cast(Int32)
treatment_utils_Priority(label) ==
    CASE label = "BATCH" -> 0
      [] label = "UKRDC" -> 1
      [] label = "RADAR" -> 2
      [] label = "RR" -> 3
      [] OTHER -> NULL

\* source_type.cast(String).replace(old=["0".."3"], new=labels, default=None)
treatment_utils_SourceLabel(n) ==
    CASE n = 0 -> "BATCH"
      [] n = 1 -> "UKRDC"
      [] n = 2 -> "RADAR"
      [] n = 3 -> "RR"
      [] OTHER -> NULL_STR

\* if df["from_date"].is_null().any(): raise ValueError
treatment_utils_from_date_is_null(t) == \E i \in 1..Len(t) : t[i].from_date = NULL

\* the reference columns of treatment_utils.group_similar_or_overlapping_range:
\* prev_to_date is the shifted, forward-filled to_date and nothing else
treatment_utils_ReferenceTable(t, window) ==
    canonical_sort(
        with_prev_to_date(
            to_date_sort(with_prev_from_date(canonical_sort(t, window), window), window),
            window),
        window)

treatment_utils_group_similar_or_overlapping_range(t, window, days) ==
    DropCols(with_group_id(with_group_flag(treatment_utils_ReferenceTable(t, window), days),
                           window),
             {"prev_to_date", "prev_from_date"})

treatment_utils_with_priority(t) ==
    [i \in 1..Len(t) |-> [t[i] EXCEPT !.source_type = treatment_utils_Priority(@)]]

\* pl.concat([df_collection[i] for i in df_collection], how="diagonal_relaxed")
\*   .sort("patient_id", "modality", "from_date")
\* every frame of the collection, in the order of the dict of test_group_reduce
treatment_utils_concat(c) ==
    sort(Diagonal(c.ukrdc \o c.radar \o c.rr, Columns(c.ukrdc \o c.radar \o c.rr)),
         <<"patient_id", "modality", "from_date">>, AllOf(3, FALSE), FALSE)

\* Mutant of treatment_utils_combine_treatment_dataframes: the window and the
\* threshold of utils/treatments.py, (patient_id, modality) and 5 days.
treatment_utils_combine_per_modality(c) ==
    treatment_utils_group_similar_or_overlapping_range(
        PrioritySort(
            treatment_utils_with_priority(
                with_recent_date(treatment_utils_concat(c), "recent_date"))),
        <<"patient_id", "modality">>, 5)

treatment_utils_combine_treatment_dataframes(c) ==
    treatment_utils_group_similar_or_overlapping_range(
        PrioritySort(
            treatment_utils_with_priority(
                with_recent_date(treatment_utils_concat(c), "recent_date"))),
        <<"patient_id">>, 15)

treatment_utils_SelectedColumns ==
    <<"patient_id", "id", "from_date", "to_date", "modality", "source_group_id",
      "source_type", "created_user_id", "created_date", "modified_user_id",
      "modified_date", "recent_date">>

\* agg: the first non-null id and the first value of every other column;
\* then source_type back to its label and the selected columns
treatment_utils_agg(groups) ==
    [n \in 1..Len(groups) |->
        Select([groups[n][1] EXCEPT
                    !.id = First(SelectSeq(Col(groups[n], "id"), NotNull)),
                    !.source_type = treatment_utils_SourceLabel(@)],
               treatment_utils_SelectedColumns)]

treatment_utils_group_and_reduce_combined_treatment_dataframe(t) ==
    treatment_utils_agg(group_by(PrioritySort(t), <<"patient_id", "group_id">>))

\* The tables of test_group_reduce: days are counted from 2020-04-02, Ben is
\* patient 1 and Bob patient 2; 2020-04-12 is day 10, 2021-04-02 day 365 and
\* 2024-04-02 day 1461.
ScenarioUkrdcSpans == {<<0, 1>>, <<NULL, 1>>}
ScenarioRadarSpans == {<<10, 11>>, <<17, 18>>, <<365, 366>>}
ScenarioStamps == {0, 1461}

ScenarioUkrdcRows ==
    {[id |-> 0, patient_id |-> p, modality |-> 1, from_date |-> s[1],
      to_date |-> s[2], source_group_id |-> NULL, source_type |-> "UKRDC",
      created_user_id |-> NULL, created_date |-> 0, modified_user_id |-> NULL,
      modified_date |-> m] :
        p \in {1, 2}, s \in ScenarioUkrdcSpans, m \in ScenarioStamps}

ScenarioRadarRows ==
    {[id |-> 0, patient_id |-> 1, modality |-> 1, from_date |-> s[1],
      to_date |-> s[2], source_group_id |-> NULL, source_type |-> "RADAR",
      created_user_id |-> NULL, created_date |-> 0, modified_user_id |-> NULL,
      modified_date |-> 0] : s \in ScenarioRadarSpans}

\* the ids of the test: 0 and 1 for the UKRDC rows, 2 and 4 for the RADAR rows
ScenarioIds(t, ids) == [i \in 1..Len(t) |-> [t[i] EXCEPT !.id = ids[i]]]

ScenarioInit ==
    /\ pc = "treatment_utils_combine"
    /\ \E u \in Tables(ScenarioUkrdcRows, 2), r \in Tables(ScenarioRadarRows, 2) :
          df_collection = [ukrdc |-> ScenarioIds(u, <<0, 1>>),
                           radar |-> ScenarioIds(r, <<2, 4>>),
                           rr |-> <<>>]
    /\ df = Idle
    /\ day_override = DefaultDayOverride
    /\ grouped = Idle
    /\ reduced_source = Idle
    /\ combined_dataframe = Idle
    /\ reduced_dataframe = Idle
    /\ full_dataframe = Idle
    /\ existing_rows = Idle
    /\ new_rows = Idle
    /\ commit = FALSE
    /\ inserted = Idle

\* df = combine_treatment_dataframes(df)
ScenarioCombine ==
    /\ pc = "treatment_utils_combine"
    /\ IF treatment_utils_from_date_is_null(treatment_utils_concat(df_collection))
       THEN /\ pc' = "raised"
            /\ UNCHANGED combined_dataframe
       ELSE /\ pc' = "treatment_utils_reduce"
            /\ combined_dataframe' =
                  treatment_utils_combine_treatment_dataframes(df_collection)
    /\ UNCHANGED <<df, day_override, grouped, reduced_source, df_collection,
                   reduced_dataframe, full_dataframe, existing_rows, new_rows,
                   commit, inserted>>

\* group_and_reduce_combined_dataframe(df)
ScenarioReduce ==
    /\ pc = "treatment_utils_reduce"
    /\ reduced_dataframe' \in
          Orderings(treatment_utils_group_and_reduce_combined_treatment_dataframe(
                        combined_dataframe))
    /\ pc' = "treatment_utils_reduced"
    /\ UNCHANGED <<df, day_override, grouped, reduced_source, df_collection,
                   combined_dataframe, full_dataframe, existing_rows, new_rows,
                   commit, inserted>>

SpecScenario == ScenarioInit /\ [][ScenarioCombine \/ ScenarioReduce]_vars

\* the input of test_group_reduce, whatever the modified_date of its UKRDC rows
IsScenario(c) ==
    /\ Len(c.ukrdc) = 2 /\ Len(c.radar) = 2
    /\ c.ukrdc[1].patient_id = 1 /\ c.ukrdc[2].patient_id = 2
    /\ \A i \in 1..2 : c.ukrdc[i].from_date = 0 /\ c.ukrdc[i].to_date = 1
    /\ c.radar[1].from_date = 10 /\ c.radar[1].to_date = 11
    /\ c.radar[2].from_date = 365 /\ c.radar[2].to_date = 366

\* the rows of the combined table with the given id
WithId(t, id) == {i \in 1..Len(t) : t[i].id = id}

\* C21: the scenario reduces to three canonical rows with ids 1, 2 and 4;
\* UKRDC row 0 is in the group of RADAR row 2, whose canonical row is the
\* RADAR row; row 1 and row 4 are alone in their groups.
C21_SplitScenario ==
    (pc = "treatment_utils_reduced" /\ IsScenario(df_collection)) =>
        /\ Len(reduced_dataframe) = 3
        /\ {reduced_dataframe[n].id : n \in 1..3} = {1, 2, 4}
        /\ \A i \in WithId(combined_dataframe, 0), j \in WithId(combined_dataframe, 2) :
              WindowKey(combined_dataframe[i], <<"patient_id", "group_id">>)
                  = WindowKey(combined_dataframe[j], <<"patient_id", "group_id">>)
        /\ \A n \in 1..3 :
              reduced_dataframe[n].id = 2 =>
                  /\ reduced_dataframe[n].source_type = "RADAR"
                  /\ reduced_dataframe[n].from_date = 10
        /\ \A i, j \in 1..Len(combined_dataframe) :
              (combined_dataframe[i].id \in {1, 4} /\ i # j) =>
                  WindowKey(combined_dataframe[i], <<"patient_id", "group_id">>)
                      # WindowKey(combined_dataframe[j], <<"patient_id", "group_id">>)

\* the scenario, reduced
C21_Witness ==
    /\ pc = "treatment_utils_reduced"
    /\ IsScenario(df_collection)
    /\ df_collection.ukrdc[1].modified_date = 1461
    /\ df_collection.ukrdc[2].modified_date = 0
    /\ Len(reduced_dataframe) = 3

----------------------------------------------------------------------------
(* Recency in the per-source reducer                                       *)

\* the later of created_date and modified_date, null if both are null
Recency(r) == max_horizontal(r.created_date, r.modified_date)

\* C22 (as claimed): in the per-source reducer a row without recency never
\* supplies the attribute values of a cluster that holds a row with a
\* concrete recency: the output row of such a cluster has the created_date
\* and modified_date of one of its rows with a concrete recency.
C22_NullRecencyRanksLowest ==
    pc = "reduced_source" =>
        \A n \in 1..Len(reduced_source) :
            LET o == reduced_source[n]
                K == {r \in RowSet(grouped) : ClusterKey(r) = ClusterKey(o)}
            IN  (\E r \in K : Recency(r) # NULL) =>
                    \E r \in K :
                        /\ Recency(r) # NULL
                        /\ o.created_date = r.created_date
                        /\ o.modified_date = r.modified_date

----------------------------------------------------------------------------
(* Cardinality of the reductions                                           *)

\* the clusters of the grouped source table
SourceClusterKeys == {ClusterKey(r) : r \in RowSet(grouped)}

\* the number of canonical rows of one window
InWindowCount(t, w) ==
    Cardinality({n \in 1..Len(t) : WindowKey(t[n], TreatmentWindow) = w})

\* C23: each reducer returns one row for every (patient_id, modality,
\* group_id) of its input and no other row: the rows of the per-source
\* reducer carry the cluster keys of the grouped table, each once, and the
\* cross-source reducer returns, window by window, as many rows as the
\* combined table has clusters in that window.
C23_OneRowPerGroup ==
    /\ pc = "reduced_source" =>
          /\ {ClusterKey(reduced_source[n]) : n \in 1..Len(reduced_source)}
                = SourceClusterKeys
          /\ Len(reduced_source) = Cardinality(SourceClusterKeys)
    /\ Reduced =>
          /\ Len(reduced_dataframe) = Cardinality(ClusterKeys)
          /\ \A w \in WindowsOf(combined_dataframe) \cup WindowsOf(reduced_dataframe) :
                InWindowCount(reduced_dataframe, w)
                    = Cardinality({k \in ClusterKeys : <<k[1], k[2]>> = w})

\* a combined table with fewer clusters than rows and more than one cluster,
\* reduced
C23_Witness ==
    /\ Reduced
    /\ Cardinality(ClusterKeys) = 2
    /\ Len(combined_dataframe) = 3
    /\ Len(reduced_dataframe) = 2

----------------------------------------------------------------------------
(* Specification of treatment_run up to the write to the canonical store   *)

TreatmentRunInit ==
    /\ pc = "reduce_ukrdc"
    /\ df_collection \in
          [radar : RadarTables,
           ukrdc : Tables(RunRows("UKRDC", UkrdcStamps), MaxSourceRows),
           rr : Tables(RunRows("RR", RrStamps), MaxSourceRows)]
    /\ df = Idle
    /\ day_override = DefaultDayOverride
    /\ grouped = Idle
    /\ reduced_source = Idle
    /\ combined_dataframe = Idle
    /\ reduced_dataframe = Idle
    /\ full_dataframe = Idle
    /\ existing_rows = Idle
    /\ new_rows = Idle
    /\ commit \in BOOLEAN
    /\ inserted = Idle

\* if commit: df_batch_insert_to_sql(new_treatments, sessions["radar"],
\*                                   radar.Dialysi.__table__, 1000, "id")
\* Mutant of WriteTreatments: the new rows are handed over whatever commit is.
WriteTreatments_ungated ==
    /\ pc = "split_done"
    /\ inserted' = new_rows
    /\ pc' = "treatments_done"
    /\ UNCHANGED <<df, day_override, grouped, reduced_source, df_collection,
                   combined_dataframe, reduced_dataframe, full_dataframe,
                   existing_rows, new_rows, commit>>

WriteTreatments ==
    /\ pc = "split_done"
    /\ inserted' = IF commit THEN new_rows ELSE inserted
    /\ pc' = "treatments_done"
    /\ UNCHANGED <<df, day_override, grouped, reduced_source, df_collection,
                   combined_dataframe, reduced_dataframe, full_dataframe,
                   existing_rows, new_rows, commit>>

SpecTreatmentRun == TreatmentRunInit /\ [][TreatmentNext \/ WriteTreatments]_vars

\* main: treatment_run returns and its tables are gone
TreatmentRunReturns ==
    /\ pc = "treatments_done"
    /\ df_collection' = NoTables
    /\ combined_dataframe' = Idle
    /\ reduced_dataframe' = Idle
    /\ full_dataframe' = Idle
    /\ existing_rows' = Idle
    /\ new_rows' = Idle
    /\ pc' = "transplant_run"
    /\ UNCHANGED <<df, day_override, grouped, reduced_source, commit, inserted>>

\* main: transplant_run(audit, sessions, radar_patient_id_map, commit); the
\* transplant tables are loaded and formatted
StartTransplantRun ==
    /\ pc = "transplant_run"
    /\ df_collection' \in TransplantTables
    /\ pc' = "reduce_rr_transplants"
    /\ UNCHANGED <<df, day_override, grouped, reduced_source, combined_dataframe,
                   reduced_dataframe, full_dataframe, existing_rows, new_rows,
                   commit, inserted>>

\* main: the treatment run, then the transplant run, with one commit flag
SpecRuns ==
    TreatmentRunInit
        /\ [][TreatmentNext \/ WriteTreatments \/ TreatmentRunReturns
              \/ StartTransplantRun \/ TransplantNext \/ TransplantEnd]_vars

\* C24 (as claimed): when treatment_run has run with commit set, every row
\* of both tables of the split, the new rows and the update rows, has been
\* handed to the persistence collaborator.
C24_BothTablesWritten ==
    (pc = "treatments_done" /\ commit) =>
        /\ \A r \in RowSet(new_rows) : r \in RowSet(inserted)
        /\ \A r \in RowSet(existing_rows) : r \in RowSet(inserted)

----------------------------------------------------------------------------
(* Specification of the grouping step at the boundary of the threshold     *)

\* episodes 9 days apart lasting 3 or 4 days, one-day episodes 5 days apart
\* and open-ended episodes
BoundarySpans ==
    {<<0, NULL>>, <<0, 3>>, <<0, 4>>, <<5, 5>>, <<9, 12>>, <<9, 13>>, <<10, 10>>,
     <<10, NULL>>, <<18, 21>>, <<18, 22>>}

BoundaryRows ==
    {[id |-> 0, patient_id |-> p, modality |-> 1, from_date |-> s[1], to_date |-> s[2]] :
        p \in Patients, s \in BoundarySpans}

\* every row has an id of its own, its position in the input
BoundaryInit ==
    /\ pc = "group"
    /\ df \in {WithIds(t) : t \in Tables(BoundaryRows, MaxRows)}
    /\ day_override = DefaultDayOverride
    /\ grouped = Idle
    /\ reduced_source = Idle
    /\ df_collection = NoTables
    /\ combined_dataframe = Idle
    /\ reduced_dataframe = Idle
    /\ full_dataframe = Idle
    /\ existing_rows = Idle
    /\ new_rows = Idle
    /\ commit = FALSE
    /\ inserted = Idle

SpecBoundary == BoundaryInit /\ [][GroupNext]_vars

\* group membership: the sets of ids that share a window and a group_id
Membership(t) ==
    {{t[j].id : j \in {j \in 1..Len(t) :
                          /\ WindowKey(t[j], TreatmentWindow) = WindowKey(t[i], TreatmentWindow)
                          /\ t[j].group_id = t[i].group_id}} :
        i \in 1..Len(t)}

\* C25: the groups of group_similar_or_overlapping_range are the same sets of
\* rows whatever the order the rows are given in, an open-ended row first, in
\* the middle or last, and the same when the table is grouped again.
C25_OrderIndependent ==
    pc = "grouped" =>
        \A p \in Orders(Len(df)) :
            Membership(group_similar_or_overlapping_range(
                           Reordered(df, p), TreatmentWindow, day_override))
                = Membership(grouped)

\* a window with an open-ended episode given last and two episodes 5 days
\* apart, grouped
C25_Witness ==
    /\ pc = "grouped"
    /\ Len(df) = 3
    /\ \A i \in 1..3 : df[i].patient_id = 1
    /\ <<df[1].from_date, df[1].to_date>> = <<5, 5>>
    /\ <<df[2].from_date, df[2].to_date>> = <<10, 10>>
    /\ <<df[3].from_date, df[3].to_date>> = <<0, NULL>>
    /\ Cardinality(Membership(grouped)) = 1

\* the closeness marks of the rows in canonical order: 1 on a row that is not
\* close to its reference row, 0 otherwise
Marks == Col(with_group_flag(ReferenceTable(df, TreatmentWindow), day_override), "group_id")

\* the row of the grouped table at position i is the first of its window
FirstOfWindow(i) ==
    \/ i = 1
    \/ WindowKey(grouped[i - 1], TreatmentWindow) # WindowKey(grouped[i], TreatmentWindow)

\* C26: in every window the first row in canonical order has group_id 0
\* whatever its mark, every later row has the group_id of the row before it,
\* plus one if it is marked as starting a new group; so the group_ids of a
\* window with k groups are 0..k-1.
C26_GroupIdNumbering ==
    pc = "grouped" =>
        /\ \A i \in 1..Len(grouped) :
              /\ FirstOfWindow(i) => grouped[i].group_id = 0
              /\ ~FirstOfWindow(i) =>
                    /\ grouped[i].from_date >= grouped[i - 1].from_date
                    /\ grouped[i].group_id =
                          grouped[i - 1].group_id + (IF Marks[i] = 1 THEN 1 ELSE 0)
        /\ \A w \in WindowsOf(grouped) :
              GroupsOf(grouped, w) = 0..(Cardinality(GroupsOf(grouped, w)) - 1)

\* a window of three rows of which the second is close to the first and the
\* third starts a new group
C26_Witness ==
    /\ pc = "grouped"
    /\ Len(grouped) = 3
    /\ Marks = <<1, 0, 1>>
    /\ Col(grouped, "group_id") = <<0, 0, 1>>
    /\ \A i \in 1..3 : grouped[i].patient_id = 1

\* the rows of the window of row i are closed episodes, each starting after
\* the end of the one before it in canonical order
Disjoint(i) ==
    \A j \in 1..Len(grouped) :
        WindowKey(grouped[j], TreatmentWindow) = WindowKey(grouped[i], TreatmentWindow) =>
            /\ grouped[j].to_date # NULL
            /\ ~FirstOfWindow(j) => grouped[j].from_date > grouped[j - 1].to_date

\* the days between the end of the row before row i and the start of row i
Gap(i) == grouped[i].from_date - grouped[i - 1].to_date

\* the spans of one window of the grouped table, in canonical order
SpansOf(w) ==
    [i \in 1..Len(InWindow(grouped, w)) |->
        <<InWindow(grouped, w)[i].from_date, InWindow(grouped, w)[i].to_date>>]

\* C27: in a window of closed episodes that do not overlap, a row starting
\* exactly day_threshold days after the end of the row before it is in that
\* row's group and a row starting day_threshold + 1 days after it starts a
\* new group; with the threshold 5, episodes starting every 9 days form one
\* group when they last 4 days and one group each when they last 3 days.
C27_InclusiveThreshold ==
    pc = "grouped" =>
        /\ \A i \in 1..Len(grouped) :
              (Disjoint(i) /\ ~FirstOfWindow(i)) =>
                  /\ Gap(i) = day_override =>
                        grouped[i].group_id = grouped[i - 1].group_id
                  /\ Gap(i) = day_override + 1 =>
                        grouped[i].group_id = grouped[i - 1].group_id + 1
        /\ \A w \in WindowsOf(grouped) :
              /\ SpansOf(w) = <<(<<0, 4>>), (<<9, 13>>), (<<18, 22>>)>> =>
                    GroupsOf(grouped, w) = {0}
              /\ SpansOf(w) = <<(<<0, 3>>), (<<9, 12>>), (<<18, 21>>)>> =>
                    GroupsOf(grouped, w) = {0, 1, 2}

\* three episodes starting every 9 days and lasting 4 days, given in another
\* order, in one group
C27_Witness ==
    /\ pc = "grouped"
    /\ day_override = 5
    /\ Len(df) = 3
    /\ <<df[1].from_date, df[1].to_date>> = <<18, 22>>
    /\ SpansOf(<<1, 1>>) = <<(<<0, 4>>), (<<9, 13>>), (<<18, 22>>)>>
    /\ \A i \in 2..3 : Disjoint(i) /\ Gap(i) = 5
    /\ Col(grouped, "group_id") = <<0, 0, 0>>

----------------------------------------------------------------------------
(* Specification of transplant_run from RR transplants 5 and 10 days apart *)

ChainDates == {NULL, 0, 5, 10, 20, 26}

ChainTransplants ==
    {[patient_id |-> p, modality |-> 2, date |-> d, date_of_failure |-> NULL,
      source_group_id |-> 200, source_type |-> "RR"] :
        p \in Patients, d \in ChainDates}

\* df keeps the RR transplants as they are before the reduction
ChainInit ==
    /\ pc = "reduce_rr_transplants"
    /\ df \in Tables(ChainTransplants, MaxRows)
    /\ df_collection = [radar |-> <<>>, ukrdc |-> <<>>, rr |-> df]
    /\ day_override = DefaultDayOverride
    /\ grouped = Idle
    /\ reduced_source = Idle
    /\ combined_dataframe = Idle
    /\ reduced_dataframe = Idle
    /\ full_dataframe = Idle
    /\ existing_rows = Idle
    /\ new_rows = Idle
    /\ commit = FALSE
    /\ inserted = Idle

SpecChain == ChainInit /\ [][TransplantNext]_vars

\* the rows of one patient
OfPatient(t, p) == SelectSeq(t, LAMBDA r : r.patient_id = p)

\* the concrete dates of a table
DatesOf(t) == {t[i].date : i \in 1..Len(t)} \ {NULL}

\* the dates that start a chain: no earlier date of the patient lies within
\* 5 days before them
ChainStarts(t) ==
    {d \in DatesOf(t) : ~\E e \in DatesOf(t) : e < d /\ d - e <= 5}

\* the number of rows without a date
Undated(t) == Cardinality({i \in 1..Len(t) : t[i].date = NULL})

\* C28: group_and_reduce_transplant_rr returns for every patient one row for
\* every maximal chain of dates in which consecutive dates are at most 5 days
\* apart, with the earliest date of the chain, and one row for every row
\* without a date; every row it returns has a null id.
C28_RrTransplantChains ==
    pc = "merge_transplants" =>
        /\ \A p \in Patients :
              /\ DatesOf(OfPatient(df_collection.rr, p)) = ChainStarts(OfPatient(df, p))
              /\ Len(OfPatient(df_collection.rr, p))
                    = Cardinality(ChainStarts(OfPatient(df, p))) + Undated(OfPatient(df, p))
        /\ \A n \in 1..Len(df_collection.rr) :
              /\ df_collection.rr[n].id = NULL
              /\ df_collection.rr[n].patient_id \in Patients

\* three transplants of one patient 5 days apart, given out of order and
\* reduced to one row with the earliest date
C28_Witness ==
    /\ pc = "merge_transplants"
    /\ Len(df) = 3
    /\ Col(df, "date") = <<10, 0, 5>>
    /\ \A i \in 1..3 : df[i].patient_id = 1
    /\ Len(df_collection.rr) = 1
    /\ df_collection.rr[1].date = 0

----------------------------------------------------------------------------
(* Disjoint canonical episodes                                             *)

\* episodes of which one lies inside another
ContainedSpans == {<<0, 0>>, <<0, 12>>, <<3, 12>>, <<9, 9>>, <<18, 21>>}

ContainedRows ==
    {[id |-> NULL, patient_id |-> p, modality |-> 1, from_date |-> s[1],
      to_date |-> s[2], source_group_id |-> 1, source_type |-> "UKRDC",
      created_date |-> 1, modified_date |-> NULL] :
        p \in Patients, s \in ContainedSpans}

ContainedInit ==
    /\ pc = "reduce_source"
    /\ df \in Tables(ContainedRows, MaxRows)
    /\ day_override = DefaultDayOverride
    /\ grouped = Idle
    /\ reduced_source = Idle
    /\ df_collection = NoTables
    /\ combined_dataframe = Idle
    /\ reduced_dataframe = Idle
    /\ full_dataframe = Idle
    /\ existing_rows = Idle
    /\ new_rows = Idle
    /\ commit = FALSE
    /\ inserted = Idle

\* the per-source reducer on closed episodes that contain one another
SpecContained == ContainedInit /\ [][ReduceSourceNext]_vars

\* two closed ranges share a day
Overlap(a, b) ==
    /\ a.to_date # NULL /\ b.to_date # NULL
    /\ a.from_date <= b.to_date
    /\ b.from_date <= a.to_date

\* C29 (as claimed): no two rows the per-source reducer returns for one
\* window have overlapping ranges [from_date, to_date]; open-ended rows are
\* left out of the comparison.
C29_CanonicalEpisodesDisjoint ==
    pc = "reduced_source" =>
        \A n, m \in 1..Len(reduced_source) :
            (n # m /\ WindowKey(reduced_source[n], TreatmentWindow)
                        = WindowKey(reduced_source[m], TreatmentWindow)) =>
                ~Overlap(reduced_source[n], reduced_source[m])

----------------------------------------------------------------------------
(* The write block of runs/treatment_run.py and commit gating              *)

\* new_treatments as the split and fill_null_time of runs/treatment_run.py
\* leave it: rows without id
RunsNewRows ==
    {[id |-> NULL, patient_id |-> p, modality |-> 1, from_date |-> s[1],
      to_date |-> s[2], source_group_id |-> 1, source_type |-> l,
      created_user_id |-> NULL, created_date |-> 1, modified_user_id |-> NULL,
      modified_date |-> 1, recent_date |-> 1] :
        p \in Patients, s \in RunSpans, l \in {"UKRDC", "RR"}}

RunsWriteInit ==
    /\ pc = "runs_write"
    /\ new_rows \in Tables(RunsNewRows, MaxSourceRows + 1)
    /\ commit \in BOOLEAN
    /\ inserted = Idle
    /\ df = Idle
    /\ day_override = DefaultDayOverride
    /\ grouped = Idle
    /\ reduced_source = Idle
    /\ df_collection = NoTables
    /\ combined_dataframe = Idle
    /\ reduced_dataframe = Idle
    /\ full_dataframe = Idle
    /\ existing_rows = Idle

\* new_treatments.slice(0, 1).drop([...]).with_columns(id, source_type,
\* created_user_id, modified_user_id literals)
runs_first_row(t) ==
    [i \in 1..(IF Len(t) = 0 THEN 0 ELSE 1) |->
        [c \in DOMAIN t[i] \ {"recent_date"} |->
            CASE c = "id" -> "b91d66f2-cd53-42ec-82f8-8d52de5b5bbc"
              [] c = "source_type" -> "DEL"
              [] c = "created_user_id" -> 999
              [] c = "modified_user_id" -> 100
              [] OTHER -> t[i][c]]]

\* new_treatments is cut to its first row, relabelled and turned into a
\* pandas frame; then new_treatments.to_sql(..., con=sessions["radar"].bind,
\* ...): sessions["radar"] is the SessionManager of create_sessions, which has
\* a session and an engine and no bind, so the argument raises AttributeError
\* before to_sql is called, and the commit test after it is not reached
RunsWrite ==
    /\ pc = "runs_write"
    /\ new_rows' = runs_first_row(new_rows)
    /\ pc' = "raised"
    /\ UNCHANGED <<df, day_override, grouped, reduced_source, df_collection,
                   combined_dataframe, reduced_dataframe, full_dataframe,
                   existing_rows, commit, inserted>>

\* the runs of both generations up to their writes
SpecCommit ==
    (TreatmentRunInit \/ TransplantRunInit \/ RunsWriteInit)
        /\ [][TreatmentNext \/ WriteTreatments \/ TransplantNext \/ TransplantEnd
              \/ RunsWrite]_vars

\* C30: a run with commit false hands nothing to the canonical store, and
\* rows are handed to it only in the write block of a run, after the split
\* or the reduction, with commit true.
C30_CommitGating ==
    /\ ~commit => inserted = Idle
    /\ inserted # Idle => pc \in {"treatments_done", "done"}

\* a run without commit that has passed its write block with new rows to
\* write and has written none
C30_Witness ==
    /\ pc = "treatments_done"
    /\ ~commit
    /\ new_rows # <<>>
    /\ inserted = Idle

============================================================================
